---- MODULE Spec2Model ----
(***************************************************************************)
(* A model of the audio-reactive heart animation (HeartAnimation, the      *)
(* first component of src/unnamed/part_007): the render loop with its      *)
(* pulse controller and particle field, and the React effects that publish *)
(* the shared ControlVector (audioData / audioDataRef).                    *)
(*                                                                         *)
(* Numbers.  The code computes in IEEE doubles; the model computes in      *)
(* fixed point.  Levels, pulse factors and the phase time are integers in  *)
(* units of 1/Scale; canvas coordinates and velocities are integers in     *)
(* units of 1/PosScale pixel.  Math.sin is Bhaskara's rational             *)
(* approximation (absolute error below 0.002, values in [-1, 1]).  The     *)
(* one non-finite double the particle step can produce, NaN from 0/0, is   *)
(* the reserved value NaN, propagated through the arithmetic as IEEE does. *)
(*                                                                         *)
(* The specifications share the variables.  SpecLoop is the canvas effect  *)
(* (initialisation, loop, handleResize) fed by an environment that may     *)
(* publish any ControlVector.  SpecSources is the set of publisher effects *)
(* under every change of the props.  SpecAnalyser is the live spectral     *)
(* source alone, with its frames spread over time.  SpecFaults is the loop *)
(* beside the failures of the sources, with a fair loop.  SpecScenario is  *)
(* the loop under scripted ControlVectors, SpecSimulation the simulation   *)
(* publisher over the positions of a track.  SpecService is                *)
(* MeydaAudioService (src/src/services/meyda.ts).  SpecCanvas is the       *)
(* canvas effect mounted on every outcome of acquiring the canvas and its  *)
(* 2D context.  SpecRecco is ReccoBeatsService                             *)
(* (src/src/services/reccobeats.ts): its cache, its rate limiter and its   *)
(* request queue, each queued closure run in three steps, up to its timer, *)
(* up to its fetch, and from the settled fetch to the next shift.          *)
(* SpecWindow is the live spectral source under a periodic signal sampled  *)
(* every WindowGap ms, SpecPhase the scripted loop run until the phase has *)
(* passed a full period of the heartbeat.  SpecAnalyserFair and            *)
(* SpecReccoFair add to SpecAnalyser and SpecRecco that a requested frame  *)
(* runs, a due timer fires and a started fetch settles.  SpecPlayer is     *)
(* WebPlayerProvider (src/unnamed/part_003:644-1116) with the Spotify SDK  *)
(* as its environment.  loop                                               *)
(* only reads audioDataRef and isPlayingRef, so what a tick reads in a     *)
(* state of SpecSources is the value of those two refs in that state.      *)
(*                                                                         *)
(* Time.  Date.now() is the variable now.  It advances with the animation  *)
(* frames of analyzeAudio, in SpecService in steps of ClockStep, and in    *)
(* SpecRecco through the instants ReccoInstants; a render of the           *)
(* component and its effects take no time.                                 *)
(***************************************************************************)
EXTENDS Integers, Sequences, FiniteSets, TLC

VARIABLES
    \* ---- the canvas effect (part_007:478-709)
    time,           \* phase accumulator, 1/Scale
    lastBeatTime,   \* phase at the last beat seen by loop, 1/Scale
    clampedPulse,   \* the scalar last passed to pulse(kx, ky), 1/Scale; 0 before the first tick
    targetPoints,   \* sequence of [x, y], 1/PosScale px; empty before the first tick
    e,              \* the particle array
    ticks,          \* number of loop iterations run
    drawn,          \* the Math.random() outcomes of the last tick, per arrived particle (history)
    animationId,    \* the handle of the latest frame request of loop (part_007:588, 697, 701)
    frames,         \* the handles of the requested frames of loop that have not run
    inner,          \* [w, h]: window.innerWidth / innerHeight, px
    dpr,            \* window.devicePixelRatio
    canvas,         \* [width, height, styleW, styleH, scale, painted]
    mounted,        \* FALSE once the cleanups of the component have run
    surface,        \* what canvasRef.current and getContext('2d') yield at mount
    listening,      \* TRUE while handleResize is a listener of 'resize' (part_007:523, 704)
    \* ---- refs read by loop (part_007:93-103)
    audioDataRef,
    isPlayingRef,
    \* ---- the component's inputs and state (part_007:61-90)
    props,                \* [audioElement, isPlaying, isSpotifyMode, spotifyTrackData,
                          \*  meydaData, currentTrackId, currentPosition]
    audioData,            \* the useState ControlVector written by setAudioData
    spotifyAnalysis,      \* Null or the loaded analysis
    isLoadingAnalysis,
    lastAnalyzedTrackId,  \* localStorage 'lastAnalyzedTrackId'
    fetching,             \* the track whose analysis request is in flight, or Null
    \* ---- Web Audio initialisation (part_007:190-238)
    analyserRef,          \* "none" or "ready"
    resuming,             \* TRUE while initAudioContext awaits resume()
    \* ---- the armed publishers
    meydaInterval,        \* Off or the closure of the interval of part_007:134
    simulationInterval,   \* Off or the closure of the interval of part_007:396
    analysisInterval,     \* Off or the closure of the interval of part_007:472
    animationFrameRef,    \* TRUE while a frame of analyzeAudio is requested
    beatLastTime,         \* lastBeatTime of the analyser effect's closure (part_007:271), ms
    beatHistory,          \* beatHistory of the analyser effect's closure (part_007:273)
    now,                  \* Date.now(), ms
    \* ---- history
    flagged,              \* the times at which analyzeAudio flagged a beat
    published,            \* TRUE once setAudioData has been called
    lastPublished,        \* the object passed to the latest setAudioData
    \* ---- MeydaAudioService (services/meyda.ts)
    Meyda,                \* TRUE iff import('meyda') succeeds (meyda.ts:5-23)
    audioContext,         \* TRUE iff this.audioContext and this.sourceNode are set
    currentAnalyzer,      \* this.currentAnalyzer: Null or the index of an analyzer
    analyzers,            \* the analyzers created so far: [kind, running, startedAt,
                          \*  trackData, stopResolved]
    timeouts,             \* due times of the pending timers of meyda.ts:243-251, ms
    calls,                \* the service calls suspended at  await loadMeyda()
    delivered,            \* Null or the latest invocation of a startAnalysis callback
                          \*  (history): [by, at, features, n, caught, prev, raw]
    \* ---- ReccoBeatsService (services/reccobeats.ts)
    cache,                \* this.cache: per key Null or [data, timestamp]
    lastRequestTime,      \* this.lastRequestTime, ms
    requestQueue,         \* this.requestQueue: the closures not yet shifted, [id, key]
    isProcessingQueue,    \* this.isProcessingQueue
    running,              \* the closures shifted and not settled: [id, key, phase, due]
    nextId,               \* number of the next closure pushed (history)
    fetched,              \* the fetches started, in order: [id, key, at] (history)
    finished,             \* the ids of the closures settled (history)
    answered,             \* Null or the latest makeRequest call: [key, at, entry,
                          \*  cached, data, queued, stored] (history)
    \* ---- WebPlayerProvider (part_003:644-1116)
    Spotify,              \* TRUE iff window.Spotify is defined
    players,              \* the Spotify.Player objects created so far: [connect,
                          \*  disconnected, registering]
    isInitializingRef,    \* isInitializingRef.current
    playerRef,            \* playerRef.current: Null or the index of a player
    isReady,              \* the useState flag written by setIsReady
    player,               \* the useState value written by setPlayer
    deviceId,             \* the useState value written by setDeviceId
    playerState,          \* [is_active, device_id] of the useState WebPlayerState
    providerMounted       \* FALSE once the cleanup of part_003:1119-1123 has run

loopVars == <<time, lastBeatTime, clampedPulse, targetPoints, e, ticks, drawn, animationId,
             frames>>
canvasVars == <<inner, dpr, canvas, mounted, surface, listening>>
refVars == <<audioDataRef, isPlayingRef>>
inputVars == <<props, spotifyAnalysis, isLoadingAnalysis, lastAnalyzedTrackId, fetching>>
audioVars == <<analyserRef, resuming>>
timerVars == <<meydaInterval, simulationInterval, analysisInterval, animationFrameRef>>
beatVars == <<beatLastTime, beatHistory, now, flagged>>
sourceVars == <<inputVars, audioVars, timerVars, beatVars>>
dataVars == <<audioData, published, lastPublished>>
serviceVars == <<Meyda, audioContext, currentAnalyzer, analyzers, timeouts, calls, delivered>>
\* everything but the service and the clock
componentVars == <<loopVars, canvasVars, refVars, inputVars, audioVars, timerVars,
                   beatLastTime, beatHistory, flagged, dataVars>>
\* ReccoBeatsService (services/reccobeats.ts)
reccoVars == <<cache, lastRequestTime, requestQueue, isProcessingQueue, running, nextId,
              fetched, finished, answered>>
\* WebPlayerProvider (part_003:644-1116)
playerVars == <<Spotify, players, isInitializingRef, playerRef, isReady, player, deviceId,
               playerState, providerMounted>>
vars == <<loopVars, canvasVars, refVars, sourceVars, dataVars, serviceVars, reccoVars,
          playerVars>>

-----------------------------------------------------------------------------
(* Fixed point *)

\* 1.0 in level / pulse / phase units
Scale == 10 * 1000
\* one pixel in position units
PosScale == 2 * 5
\* the value of 0/0
NaN == 0 - 1000000000

Max(a, b) == IF a >= b THEN a ELSE b
Min(a, b) == IF a <= b THEN a ELSE b
Abs(a) == IF a < 0 THEN 0 - a ELSE a

\* round-toward-zero quotient (the model's rounding of a / b)
Quot(a, b) == IF a >= 0 THEN a \div b ELSE 0 - ((0 - a) \div b)

Pi == 31416
TwoPi == 2 * Pi

\* Math.sin on [0, Pi], Bhaskara: 16 x (Pi - x) / (5 Pi^2 - 4 x (Pi - x))
SinHalf(x) ==
    LET p == (x * (Pi - x)) \div Scale
        pi2 == (Pi * Pi) \div Scale
    IN (4 * p * Scale) \div ((5 * pi2 - 4 * p) \div 4)

\* Math.sin(x / Scale) * Scale
Sin(x) ==
    LET r == x % TwoPi
    IN IF r <= Pi THEN Min(Scale, SinHalf(r)) ELSE 0 - Min(Scale, SinHalf(r - Pi))

\* Math.cos(x / Scale) * Scale
Cos(x) == Sin(x + Pi \div 2)

RECURSIVE SqrtIter(_, _)
SqrtIter(n, x) ==
    LET y == (x + n \div x) \div 2
    IN IF y >= x THEN x ELSE SqrtIter(n, y)

\* floor(Math.sqrt(n))
Sqrt(n) == IF n <= 0 THEN 0 ELSE SqrtIter(n, n)

\* IEEE arithmetic on a value that may be NaN
NAdd(a, b) == IF a = NaN \/ b = NaN THEN NaN ELSE a + b
NSub(a, b) == IF a = NaN \/ b = NaN THEN NaN ELSE a - b
\* a * b / d with b / d a finite factor
NScale(a, b, d) == IF a = NaN THEN NaN ELSE Quot(a * b, d)
\* -a / len * s: 0/0 is NaN
NUnit(a, len, s) ==
    IF a = NaN \/ len = NaN THEN NaN
    ELSE IF len = 0 THEN NaN
    ELSE Quot((0 - a) * s, len)


-----------------------------------------------------------------------------
(* Bounds of the model *)

\* angular samples per scale tier (the code takes 63: 0 <= i < 2 Pi step dr)
SamplesPerTier == 1
\* trail points per particle (the code's traceCount is 50)
TraceCount == 2
\* loop iterations explored
MaxTicks == 2

-----------------------------------------------------------------------------
(* Curve sampler: part_007:502-549 *)

dr == 1000

\* the three (sx, sy) scale pairs, outer first
Tiers == <<[sx |-> 210, sy |-> 13], [sx |-> 150, sy |-> 9], [sx |-> 90, sy |-> 5]>>

\* heartPosition(rad): [sin^3, -(15 cos - 5 cos 2 - 2 cos 3 - cos 4)], 1/Scale
heartPosition(rad) ==
    LET s == Sin(rad)
        s3 == Quot(Quot(s * s, Scale) * s, Scale)
    IN [x |-> s3,
        y |-> 0 - (15 * Cos(rad) - 5 * Cos(2 * rad) - 2 * Cos(3 * rad) - Cos(4 * rad))]

\* scaleAndTranslate(pos, sx, sy, 0, 0), in 1/PosScale px
scaleAndTranslate(pos, sx, sy) ==
    [x |-> Quot(pos.x * sx * PosScale, Scale), y |-> Quot(pos.y * sy * PosScale, Scale)]

\* the three sampling loops, concatenated outer, middle, inner
pointsOrigin ==
    [k \in 1..(3 * SamplesPerTier) |->
        LET tier == Tiers[((k - 1) \div SamplesPerTier) + 1]
            i == (k - 1) % SamplesPerTier
        IN scaleAndTranslate(heartPosition(i * dr), tier.sx, tier.sy)]

heartPointsCount == Len(pointsOrigin)

\* pulse(kx, ky): targetPoints[i] = k * pointsOrigin[i] + window centre
pulse(kx, ky, win) ==
    [k \in 1..Len(pointsOrigin) |->
        [x |-> Quot(kx * pointsOrigin[k].x, Scale) + (win.w * PosScale) \div 2,
         y |-> Quot(ky * pointsOrigin[k].y, Scale) + (win.h * PosScale) \div 2]]

-----------------------------------------------------------------------------
(* The ControlVector *)

DefaultAudioData == [bass |-> 0, mid |-> 0, treble |-> 0, overall |-> 0, beat |-> FALSE]

\* the vectors the environment of SpecLoop commits: silence, the adversarial
\* maximum, a half level without beat, and bass without overall level
ControlVectors ==
    { DefaultAudioData,
      [bass |-> Scale, mid |-> Scale, treble |-> Scale, overall |-> Scale, beat |-> TRUE],
      [bass |-> Scale \div 2, mid |-> Scale \div 2, treble |-> Scale \div 2,
       overall |-> Scale \div 2, beat |-> FALSE],
      [bass |-> Scale, mid |-> 0, treble |-> 0, overall |-> 0, beat |-> TRUE] }

WindowSizes == { [w |-> 240, h |-> 240], [w |-> 200, h |-> 260] }
\* the window as the component mounts
InitialWindow == [w |-> 240, h |-> 240]
DprChoices == {2}

-----------------------------------------------------------------------------
(* Particle initialisation: part_007:563-579 *)

\* the initial random configurations explored
InitSeeds == 0..3

\* start offsets from the particle's idle target, 1/PosScale px: on it, within
\* the 10 px proximity threshold, and 50 px away
StartOffsets == <<[x |-> 0, y |-> 0], [x |-> 30, y |-> 40], [x |-> 2000, y |-> 3000]>>

\* q: ~~(Math.random() * heartPointsCount)
InitQ(i, seed) == (i + seed) % heartPointsCount

\* D: 2 * (i % 2) - 1
InitD(i) == 2 * (i % 2) - 1

\* one random start configuration: particle i (0-based) of the field drawn under seed.
\* One particle per seed starts on, near or away from its target; the others start away.
InitParticle(i, seed, win) ==
    LET q == InitQ(i, seed)
        off == IF i = seed % heartPointsCount
               THEN StartOffsets[((seed \div heartPointsCount) % 3) + 1]
               ELSE StartOffsets[3]
        idle == pulse(Scale, Scale, win)[q + 1]
        pos == [x |-> idle.x + off.x, y |-> idle.y + off.y]
    IN [vx |-> 0, vy |-> 0, R |-> 2,
        speed |-> IF seed % 2 = 0 THEN 5 * PosScale ELSE (11 * PosScale) \div 2,
        q |-> q,
        D |-> InitD(i),
        force |-> IF seed % 2 = 0 THEN (7 * Scale) \div 10 ELSE (8 * Scale) \div 10,
        f |-> [hue |-> IF i % 2 = 0 THEN 320 ELSE 280, alpha |-> (4 * Scale) \div 10],
        trace |-> [k \in 1..TraceCount |-> pos]]

\* the initialisation loop stopping one particle short
InitParticlesShort(seed, win) ==
    [k \in 1..(heartPointsCount - 1) |-> InitParticle(k - 1, seed, win)]

\* for (i = 0; i < heartPointsCount; i++) e[i] = {...}
InitParticles(seed, win) ==
    [k \in 1..heartPointsCount |-> InitParticle(k - 1, seed, win)]

\* the canvas after sizing, ctx.scale and the opaque black fillRect
SizedCanvas(win, ratio) ==
    [width |-> win.w * ratio, height |-> win.h * ratio,
     styleW |-> win.w, styleH |-> win.h, scale |-> ratio, painted |-> "black"]

-----------------------------------------------------------------------------
(* The four publishers: inputs and the vector each computes *)

\* a nullable value: <<>> is null / undefined, <<x>> is x
Null == <<>>
Some(x) == <<x>>
\* a cleared interval
Off == <<>>

\* Math.max(0, Math.min(1, x))
Clamp01(x) == Max(0, Min(Scale, x))

\* an  x || d  that always yields the default
OrElseDefault(x, d) == d

\* JavaScript's  x || d  for a number x (0 and undefined are falsy)
OrElse(x, d) == IF x = 0 THEN d ELSE x

RECURSIVE SumSeq(_)
SumSeq(s) == IF s = <<>> THEN 0 ELSE Head(s) + SumSeq(Tail(s))

\* s.slice(a, b).reduce((sum, val) => sum + val, 0)
SumSlice(s, a, b) == SumSeq(SubSeq(s, a + 1, Min(b, Len(s))))

\* the props of a freshly mounted <HeartAnimation /> (part_007:61-69)
DefaultProps ==
    [audioElement |-> Null, isPlaying |-> FALSE, isSpotifyMode |-> FALSE,
     spotifyTrackData |-> Null, meydaData |-> Null, currentTrackId |-> Null,
     currentPosition |-> 0]

AudioElements == {Some("audio")}

\* real-time feature objects: rms, spectralCentroid, spectralFlux and loudness in
\* 1/Scale, spectralRolloff in Hz.  The first is a quiet frame inside the ranges
\* the conversion expects, the second lies outside them on both sides.
MeydaFeatures ==
    { [rms |-> 2000, spectralCentroid |-> 5000, spectralRolloff |-> 8000,
       spectralFlux |-> 0, loudness |-> 24 * Scale],
      [rms |-> 8000, spectralCentroid |-> 0 - 3000, spectralRolloff |-> 30000,
       spectralFlux |-> 5000, loudness |-> 250 * Scale] }

\* track descriptive metrics, 1/Scale; valence 0 exercises  valence || 1
TrackMetrics == { [energy |-> 8000, danceability |-> 7000, valence |-> 0] }

TrackIds == {"t1"}

\* playback positions, ms
Positions == {0, 1000, 2000}

\* Math.random() outcomes, 1/Scale
RandomDraws == {0, 9000}

\* loaded audio analyses: times in ms, loudness in dB, pitches in 1/Scale.
\* Position 1000 lies in a segment and 100 ms after a beat starts, position
\* 2000 lies in a section only.
Analyses ==
    { [segments |-> << [start |-> 500, duration |-> 1000, loudness_max |-> 0 - 12,
                        pitches |-> <<9000, 8000, 7000, 5000, 5000, 5000, 5000, 5000,
                                      1000, 2000, 3000, 2000>>] >>,
       beats |-> << [start |-> 900, duration |-> 500] >>,
       sections |-> << [start |-> 1500, duration |-> 1000, loudness |-> 0 - 6] >>] }

\* getByteFrequencyData outcomes: the byte level of the bins of each band
Spectra ==
    { [bass |-> 0, mid |-> 0, treble |-> 0],
      [bass |-> 255, mid |-> 204, treble |-> 153] }

\* milliseconds between two animation frames of analyzeAudio
FrameGaps == {100, 101}

\* Date.now() when the component mounts
MountTime == 10 * 100

\* a writer that assigns only some of the fields of the stored object
setAudioDataFields(cur, v) == [cur EXCEPT !.bass = v.bass, !.overall = v.overall]

\* setAudioData(v): the state is replaced by the object passed
setAudioData(cur, v) == v

\* convertMeydaToAudioData without the clamps
convertMeydaUnclamped(m) ==
    [bass |-> m.rms * 2,
     mid |-> m.spectralCentroid,
     treble |-> Quot(m.spectralRolloff * Scale, 20000),
     overall |-> Quot(m.loudness, 100),
     beat |-> m.spectralFlux > Scale \div 10 \/ m.rms > (3 * Scale) \div 10]

\* convertMeydaToAudioData: part_007:109-128
convertMeydaToAudioData(m) ==
    [bass |-> Clamp01(m.rms * 2),
     mid |-> Clamp01(m.spectralCentroid),
     treble |-> Clamp01(Quot(m.spectralRolloff * Scale, 20000)),
     overall |-> Clamp01(Quot(m.loudness, 100)),
     beat |-> m.spectralFlux > Scale \div 10 \/ m.rms > (3 * Scale) \div 10]

\* a conversion that takes the two normalised levels as they are
convertNormalisedDirect(f) ==
    [treble |-> Max(0, Min(20000 * Scale, 20000 * f.spectralRolloff)),
     overall |-> Max(0, Min(100 * Scale, 100 * f.loudness))]

\* part_007:113-114 on a feature object whose spectralRolloff and loudness are
\* levels in 1/Scale, computed without rounding: treble in units of
\* 1/(20000 * Scale), overall in units of 1/(100 * Scale)
convertNormalised(f) ==
    [treble |-> Max(0, Min(20000 * Scale, f.spectralRolloff)),
     overall |-> Max(0, Min(100 * Scale, f.loudness))]

\* simulateEnhancedAudioData: part_007:357-394, at position pos (ms) with the
\* metrics track (nullable) and the Math.random() outcome rnd
simulateEnhancedAudioData(pos, track, rnd) ==
    LET currentTimeSeconds == pos * (Scale \div 1000)
        baseIntensity == IF track = Null THEN 6000 ELSE OrElse(track[1].energy, 6000)
        energyMultiplier == IF track = Null THEN Scale ELSE OrElse(track[1].energy, Scale)
        danceabilityMultiplier ==
            IF track = Null THEN Scale ELSE OrElse(track[1].danceability, Scale)
        valenceMultiplier == IF track = Null THEN Scale ELSE OrElse(track[1].valence, Scale)
        timeBasedIntensity ==
            Quot(Sin(Quot(currentTimeSeconds * 3, 10)) * 4, 10) + baseIntensity
        beatPattern == Sin(Quot(currentTimeSeconds * 15, 10)) > 7000
        randomVariation == Quot(rnd - Scale \div 2, 10)
        bass == Clamp01(Quot(Quot(timeBasedIntensity * 7, 10) * energyMultiplier, Scale)
                        + randomVariation + 1000)
        mid == Clamp01(Quot(Quot(timeBasedIntensity * 5, 10) * danceabilityMultiplier, Scale)
                       + randomVariation + 2000)
        treble == Clamp01(Quot(Quot(timeBasedIntensity * 3, 10) * valenceMultiplier, Scale)
                          + randomVariation + 1000)
    IN [bass |-> bass, mid |-> mid, treble |-> treble,
        overall |-> Quot(bass + mid + treble, 3), beat |-> beatPattern]

\* Array.prototype.find over entries with start and duration, at time t (ms)
FindAt(entries, t) ==
    LET hits == {i \in DOMAIN entries :
                    t >= entries[i].start /\ t < entries[i].start + entries[i].duration}
    IN IF hits = {} THEN Null
       ELSE Some(entries[CHOOSE i \in hits : \A j \in hits : i <= j])

\* (loudness + 60) / 60 clamped: part_007:436-438 and 453-455
loudnessNormalized(db) == Clamp01(Quot((db + 60) * Scale, 60))

\* updateAudioDataFromAnalysis: part_007:405-470.  The result is Null when the
\* callback publishes nothing (no segment and no section at the position).
updateAudioDataFromAnalysis(pos, analysis, rnds) ==
    LET currentSegment == FindAt(analysis.segments, pos)
        currentBeat == FindAt(analysis.beats, pos)
        currentSection == FindAt(analysis.sections, pos)
    IN IF currentSegment # Null
       THEN LET pitches == currentSegment[1].pitches
                isBeat == currentBeat # Null /\ pos - currentBeat[1].start < 150
            IN Some([bass |-> Clamp01(Quot(SumSlice(pitches, 0, 3), 3)),
                     mid |-> Clamp01(Quot(SumSlice(pitches, 3, 8), 5)),
                     treble |-> Clamp01(Quot(SumSlice(pitches, 8, 12), 4)),
                     overall |-> loudnessNormalized(currentSegment[1].loudness_max),
                     beat |-> isBeat])
       ELSE IF currentSection # Null
       THEN LET ln == loudnessNormalized(currentSection[1].loudness)
            IN Some([bass |-> Clamp01(Quot(ln * 9, 10) + Quot(rnds[1], 10)),
                     mid |-> Clamp01(Quot(ln * 7, 10) + Quot(rnds[2], 10)),
                     treble |-> Clamp01(Quot(ln * 5, 10) + Quot(rnds[3], 10)),
                     overall |-> ln,
                     beat |-> FALSE])
       ELSE Null

\* analyser.frequencyBinCount for fftSize = 256 (part_007:205, 269)
bufferLength == 256 \div 2
bassEnd == (bufferLength * 1) \div 10
midEnd == (bufferLength * 4) \div 10

\* the longest beatHistory that is not shifted before the push (part_007:312)
HistoryKeep == 10
\* the debounce of part_007:321, ms
BeatDebounce == 200

\* analyzeAudio, part_007:278-333, on the spectrum sp at time t (ms) with the
\* closure's beatHistory hist and lastBeatTime lbt: the vector it publishes and
\* the closure afterwards.  overall > avgLevel * 1.5 is compared exactly.
analyzeAudio(sp, hist, lbt, t) ==
    LET bassSum == bassEnd * sp.bass
        midSum == (midEnd - bassEnd) * sp.mid
        trebleSum == (bufferLength - midEnd) * sp.treble
        overall == Quot((bassSum + midSum + trebleSum) * Scale, 255 * bufferLength)
        kept == IF Len(hist) > HistoryKeep THEN Tail(hist) ELSE hist
        history == Append(kept, overall)
        isBeat == /\ 2 * overall * Len(history) > 3 * SumSeq(history)
                  /\ t - lbt > BeatDebounce
    IN [data |-> [bass |-> Quot(bassSum * Scale, 255 * bassEnd),
                  mid |-> Quot(midSum * Scale, 255 * (midEnd - bassEnd)),
                  treble |-> Quot(trebleSum * Scale, 255 * (bufferLength - midEnd)),
                  overall |-> overall,
                  beat |-> isBeat],
        beatHistory |-> history,
        lastBeatTime |-> IF isBeat THEN t ELSE lbt]

-----------------------------------------------------------------------------
(* ReccoBeatsService: services/reccobeats.ts.  Constants and inputs *)

CACHE_DURATION == 5 * 60 * 1000
RATE_LIMIT_DELAY == 1000

ReccoTracks == {"t1", "t2"}

\* cacheKey = `${endpoint}_${trackId}`: the audio-features endpoint of each track
Keys == {[endpoint |-> "audio-features", trackId |-> t] : t \in ReccoTracks}

\* how a fetch settles: with the body of a 2xx response, or with a failure (a
\* response that is not ok, a body that does not parse, a network error)
Responses == BOOLEAN

\* the body of the response to the closure numbered id: each answer is told apart
ResponseData(id) == id

-----------------------------------------------------------------------------
(* The state after the component has mounted *)

\* the outcomes of acquiring the drawing surface (part_007:479-483): the canvas
\* with its 2D context, no canvas element, or a canvas without a 2D context
Surfaces == {"ok", "noCanvas", "noContext"}

\* the effect passes both early returns of part_007:479 and 483
canvasAcquired(s) == s = "ok"

\* a listener registered before the early returns
listenerAddedFirst(s) == TRUE

\* window.addEventListener('resize', handleResize) at part_007:523 is reached
listenerAdded(s) == canvasAcquired(s)

\* a canvas the effect has not sized or painted
UntouchedCanvas ==
    [width |-> 0, height |-> 0, styleW |-> 0, styleH |-> 0, scale |-> 1, painted |-> "none"]

MountedOn(surfaces, seeds, libs) ==
    /\ surface \in surfaces
    /\ listening = listenerAdded(surface)
    /\ audioDataRef = DefaultAudioData
    /\ isPlayingRef = FALSE
    /\ time = 0
    /\ lastBeatTime = 0
    /\ clampedPulse = 0
    /\ targetPoints = <<>>
    /\ ticks = 0
    /\ drawn = <<>>
    /\ animationId = IF canvasAcquired(surface) THEN 1 ELSE 0
    /\ frames = IF canvasAcquired(surface) THEN {animationId} ELSE {}
    /\ mounted = TRUE
    /\ inner = InitialWindow
    /\ dpr \in DprChoices
    /\ canvas = IF canvasAcquired(surface) THEN SizedCanvas(inner, dpr) ELSE UntouchedCanvas
    /\ \E seed \in seeds :
          e = IF canvasAcquired(surface) THEN InitParticles(seed, inner) ELSE <<>>
    /\ props = DefaultProps
    /\ audioData = DefaultAudioData
    /\ spotifyAnalysis = Null
    /\ isLoadingAnalysis = FALSE
    /\ lastAnalyzedTrackId = Null
    /\ fetching = Null
    /\ analyserRef = "none"
    /\ resuming = FALSE
    /\ meydaInterval = Off
    /\ simulationInterval = Off
    /\ analysisInterval = Off
    /\ animationFrameRef = FALSE
    /\ beatLastTime = 0
    /\ beatHistory = <<>>
    /\ now = MountTime
    /\ flagged = {}
    /\ published = FALSE
    /\ lastPublished = DefaultAudioData
    /\ Meyda \in libs
    /\ audioContext = FALSE
    /\ currentAnalyzer = Null
    /\ analyzers = <<>>
    /\ timeouts = {}
    /\ calls = <<>>
    /\ delivered = Null
    /\ cache = [k \in Keys |-> Null]
    /\ lastRequestTime = 0
    /\ requestQueue = <<>>
    /\ isProcessingQueue = FALSE
    /\ running = {}
    /\ nextId = 1
    /\ fetched = <<>>
    /\ finished = {}
    /\ answered = Null
    /\ Spotify = FALSE
    /\ players = <<>>
    /\ isInitializingRef = FALSE
    /\ playerRef = Null
    /\ isReady = FALSE
    /\ player = Null
    /\ deviceId = Null
    /\ playerState = [is_active |-> FALSE, device_id |-> Null]
    /\ providerMounted = TRUE

\* the component mounted on a canvas with a 2D context
Mounted(seeds, libs) == MountedOn({"ok"}, seeds, libs)

\* SpecLoop starts from every initial particle field of InitSeeds
InitAll == Mounted(InitSeeds, {TRUE})

\* the publishers never touch the particle field: SpecSources starts from one
InitSources == Mounted({0}, {TRUE})

-----------------------------------------------------------------------------
(* Pulse controller: part_007:590-632 *)

PulseMin == 5000
PulseMax == 18000
timeDelta == 50
traceK == 4000

\* the factors without the test of overall
PulseFactorsUngated(a, playing, t, lbt) ==
    IF playing
    THEN [base |-> Scale + Quot(a.overall * 5, 10),
          bass |-> Scale + Quot(a.bass * 6, 10),
          beat |-> IF a.beat
                   THEN (16 * Scale) \div 10 + Quot(a.bass * 5, 10)
                   ELSE LET timeSinceBeat == t - lbt
                            beatDecay == Max(0, Scale - Quot(timeSinceBeat * 3, 100))
                        IN Scale + Quot(beatDecay * 3, 10),
          lbt |-> IF a.beat THEN t ELSE lbt]
    ELSE [base |-> Scale, bass |-> Scale, beat |-> Scale, lbt |-> lbt]

\* basePulse, bassPulse, beatPulse and the lastBeatTime after the tick
PulseFactors(a, playing, t, lbt) ==
    IF playing /\ a.overall > 0
    THEN [base |-> Scale + Quot(a.overall * 5, 10),
          bass |-> Scale + Quot(a.bass * 6, 10),
          beat |-> IF a.beat
                   THEN (16 * Scale) \div 10 + Quot(a.bass * 5, 10)
                   ELSE LET timeSinceBeat == t - lbt
                            beatDecay == Max(0, Scale - Quot(timeSinceBeat * 3, 100))
                        IN Scale + Quot(beatDecay * 3, 10),
          lbt |-> IF a.beat THEN t ELSE lbt]
    ELSE [base |-> Scale, bass |-> Scale, beat |-> Scale, lbt |-> lbt]

\* Math.sin(time * 2) * 0.15 + 1
naturalHeartbeat(t) == Quot(Sin(2 * t) * 15, 100) + Scale

\* basePulse * bassPulse * beatPulse * naturalHeartbeat
finalPulse(pf, nat) == Quot(Quot(Quot(pf.base * pf.bass, Scale) * pf.beat, Scale) * nat, Scale)

\* the clamp without its upper bound
ClampPulseNoCap(p) == Max(PulseMin, p)

\* Math.max(0.5, Math.min(1.8, finalPulse))
ClampPulse(p) == Max(PulseMin, Min(PulseMax, p))

\* a multiplier without its constant term
timeMultiplierBare(a, playing) == IF playing THEN Quot(a.overall * 12, 10) ELSE Scale

\* currentIsPlaying ? 1 + overall * 1.2 : 1
timeMultiplier(a, playing) == IF playing THEN Scale + Quot(a.overall * 12, 10) ELSE Scale

\* (sin(time) < 0 ? 12 : naturalHeartbeat > 1.2 ? .3 : 1.5) * timeDelta * timeMultiplier
TimeStep(t, nat, a, playing) ==
    LET rate == IF Sin(t) < 0 THEN 120
                ELSE IF nat > (12 * Scale) \div 10 THEN 3 ELSE 15
    IN Quot(Quot(rate * timeDelta, 10) * timeMultiplier(a, playing), Scale)

-----------------------------------------------------------------------------
(* Particle step: part_007:639-695 *)

\* the outcomes of the Math.random() draws of one arrived particle
Outcomes ==
    [kind : {"jump"}, to : 0..(heartPointsCount - 1)]
        \cup { [kind |-> "flip", to |-> 0], [kind |-> "advance", to |-> 0] }

\* JavaScript's %: the sign of the dividend
JsRem(a, n) == IF a >= 0 THEN a % n ELSE 0 - ((0 - a) % n)

\* the wrap without the correction of a negative remainder
WrapIndexNoFix(q) == JsRem(q, heartPointsCount)

\* u.q += u.D; u.q %= heartPointsCount; if (0 > u.q) u.q += heartPointsCount
WrapIndex(q) ==
    LET r == JsRem(q, heartPointsCount)
    IN IF 0 > r THEN r + heartPointsCount ELSE r

\* Math.sqrt(dx * dx + dy * dy)
Length(dx, dy) == IF dx = NaN \/ dy = NaN THEN NaN ELSE Sqrt(dx * dx + dy * dy)

\* 10 > length
Arrived(u, tp) ==
    LET len == Length(NSub(u.trace[1].x, tp[u.q + 1].x), NSub(u.trace[1].y, tp[u.q + 1].y))
    IN len # NaN /\ 10 * PosScale > len

\* a re-targeting that advances by the direction it had before the flip
RetargetFlipLate(u, out) ==
    IF out.kind = "jump" THEN [q |-> out.to, D |-> u.D]
    ELSE [q |-> WrapIndex(u.q + u.D), D |-> IF out.kind = "flip" THEN 0 - u.D ELSE u.D]

\* the re-targeting branch: [q, D] after it
Retarget(u, out) ==
    IF out.kind = "jump" THEN [q |-> out.to, D |-> u.D]
    ELSE LET d == IF out.kind = "flip" THEN 0 - u.D ELSE u.D
         IN [q |-> WrapIndex(u.q + d), D |-> d]

\* audioSpeedMultiplier * bassMultiplier * beatMultiplier
totalSpeedMultiplier(a, playing) ==
    LET audioSpeedMultiplier == IF playing THEN Scale + Quot(a.overall * 6, 10) ELSE Scale
        bassMultiplier == IF playing THEN Scale + Quot(a.bass * 4, 10) ELSE Scale
        beatMultiplier == IF a.beat THEN (15 * Scale) \div 10 ELSE Scale
    IN Quot(Quot(audioSpeedMultiplier * bassMultiplier, Scale) * beatMultiplier, Scale)

\* Math.min(1.0, baseIntensity + bassIntensity + beatIntensity)
colorIntensity(a) ==
    Min(Scale, (3 * Scale) \div 10 + Quot(a.overall * 7, 10) + Quot(a.bass * 3, 10)
               + (IF a.beat THEN (4 * Scale) \div 10 ELSE 0))

\* the trail relaxation loop: N -= traceK * (N - T), front to back
RECURSIVE Relax(_, _)
Relax(tr, k) ==
    IF k >= Len(tr) THEN tr
    ELSE LET T == tr[k]
             N == tr[k + 1]
             moved == [x |-> NSub(N.x, NScale(NSub(N.x, T.x), traceK, Scale)),
                       y |-> NSub(N.y, NScale(NSub(N.y, T.y), traceK, Scale))]
         IN Relax([tr EXCEPT ![k + 1] = moved], k + 1)

\* one iteration of the particle loop for particle u; out is read only if u has arrived
StepParticle(u, tp, a, playing, out) ==
    LET q == tp[u.q + 1]
        dx == NSub(u.trace[1].x, q.x)
        dy == NSub(u.trace[1].y, q.y)
        len == Length(dx, dy)
        rt == IF len # NaN /\ 10 * PosScale > len THEN Retarget(u, out)
              ELSE [q |-> u.q, D |-> u.D]
        sp == Quot(u.speed * totalSpeedMultiplier(a, playing), Scale)
        vx == NAdd(u.vx, NUnit(dx, len, sp))
        vy == NAdd(u.vy, NUnit(dy, len, sp))
        head == [x |-> NAdd(u.trace[1].x, vx), y |-> NAdd(u.trace[1].y, vy)]
    IN [u EXCEPT !.q = rt.q,
                 !.D = rt.D,
                 !.vx = NScale(vx, u.force, Scale),
                 !.vy = NScale(vy, u.force, Scale),
                 !.trace = Relax([u.trace EXCEPT ![1] = head], 1),
                 !.f = IF playing THEN [u.f EXCEPT !.alpha = colorIntensity(a)] ELSE u.f]

\* for (let i = e.length; i--;) { ... }: every particle stepped once
StepAll(field, tp, a, playing, outs) ==
    [k \in 1..Len(field) |->
        StepParticle(field[k], tp, a, playing,
                     IF k \in DOMAIN outs THEN outs[k] ELSE [kind |-> "advance", to |-> 0])]

\* a request that registers nothing
requestAnimationFrameDropped(fs, id) == fs

\* requestAnimationFrame(loop) returning the handle id: the requested frames after it
requestAnimationFrame(fs, id) == fs \cup {id}

\* a cancellation of the handle the mount's request returned
cancelAnimationFrameFirst(fs, id) == fs \ {1}

\* cancelAnimationFrame(id): the requested frames after it
cancelAnimationFrame(fs, id) == fs \ {id}

\* loop(): one animation frame, the limit-th at most, with the Math.random()
\* outcomes of the arrived particles drawn from draws
LoopTick(limit, draws) ==
    /\ frames # {}
    /\ ticks < limit
    /\ LET a == audioDataRef
           playing == isPlayingRef
           pf == PulseFactors(a, playing, time, lastBeatTime)
           nat == naturalHeartbeat(time)
           cp == ClampPulse(finalPulse(pf, nat))
           tp == pulse(cp, cp, inner)
           arrived == {k \in 1..Len(e) : Arrived(e[k], tp)}
       IN /\ clampedPulse' = cp
          /\ targetPoints' = tp
          /\ lastBeatTime' = pf.lbt
          /\ time' = time + TimeStep(time, nat, a, playing)
          /\ \E outs \in [arrived -> draws] :
                /\ e' = StepAll(e, tp, a, playing, outs)
                /\ drawn' = outs
    /\ ticks' = ticks + 1
    /\ canvas' = [canvas EXCEPT !.painted = "frame"]
    \* the browser takes the frame off its list and runs loop, which ends by
    \* requesting the next frame (part_007:697); handles count up from 1
    /\ animationId' = ticks + 2
    /\ \E id \in frames : frames' = requestAnimationFrame(frames \ {id}, animationId')
    /\ UNCHANGED <<inner, dpr, mounted, surface, listening, refVars, sourceVars, dataVars, serviceVars,
                   reccoVars, playerVars>>

Tick == LoopTick(MaxTicks, Outcomes)

\* a resize that runs the particle initialisation again
ResizeReinit(win) ==
    /\ listening
    /\ inner' = win
    /\ canvas' = SizedCanvas(win, dpr)
    /\ e' = InitParticles(0, win)
    /\ UNCHANGED <<dpr, mounted, surface, listening, time, lastBeatTime, clampedPulse, targetPoints, ticks, drawn,
                   animationId, frames, refVars, sourceVars, dataVars, serviceVars,
                   reccoVars, playerVars>>

\* a resize that starts the phase again
ResizeRestart(win) ==
    /\ listening
    /\ inner' = win
    /\ canvas' = SizedCanvas(win, dpr)
    /\ time' = 0
    /\ lastBeatTime' = 0
    /\ UNCHANGED <<dpr, mounted, surface, listening, clampedPulse, targetPoints, e, ticks, drawn, animationId, frames,
                   refVars, sourceVars, dataVars, serviceVars, reccoVars, playerVars>>

\* handleResize: part_007:513-521, with the window taking the size win
Resize(win) ==
    /\ listening
    /\ inner' = win
    /\ canvas' = SizedCanvas(win, dpr)
    /\ UNCHANGED <<dpr, mounted, surface, listening, loopVars, refVars, sourceVars, dataVars, serviceVars,
                   reccoVars, playerVars>>

\* A callback passes v to setAudioData; the render this schedules commits and
\* its effect of part_007:97-99 stores the new state in audioDataRef.  The
\* write and that commit are one step.
Publish(v) ==
    /\ audioData' = setAudioData(audioData, v)
    /\ audioDataRef' = audioData'
    /\ published' = TRUE
    /\ lastPublished' = v

\* some publisher publishes v
CommitAudioData(v) ==
    /\ mounted
    /\ Publish(v)
    /\ UNCHANGED <<isPlayingRef, loopVars, canvasVars, sourceVars, serviceVars, reccoVars, playerVars>>

\* the effect of part_007:101-103 after isPlaying changed
CommitIsPlaying(b) ==
    /\ mounted
    /\ isPlayingRef' = b
    /\ UNCHANGED <<audioDataRef, loopVars, canvasVars, sourceVars, dataVars, serviceVars,
                   reccoVars, playerVars>>

-----------------------------------------------------------------------------
(* The publisher effects *)

InitOutcomes == {"ok", "suspended", "error"}

\* the track-change effect calls fetchSpotifyAudioAnalysis: part_007:178-187
FetchCalled(np) ==
    /\ \/ np.isSpotifyMode # props.isSpotifyMode
       \/ np.currentTrackId # props.currentTrackId
    /\ np.isSpotifyMode
    /\ np.currentTrackId # Null
    /\ np.currentTrackId # lastAnalyzedTrackId

\* the Web Audio effect calls initAudioContext: part_007:190-191, 225, 238
InitCalled(np) ==
    /\ \/ np.audioElement # props.audioElement
       \/ np.isSpotifyMode # props.isSpotifyMode
    /\ np.audioElement # Null
    /\ ~np.isSpotifyMode

\* the analyser effect runs again: part_007:345
LoopDeps(np) ==
    \/ np.isPlaying # props.isPlaying
    \/ np.isSpotifyMode # props.isSpotifyMode

\* the last setAudioData of a batch wins
LastWrite(cur, writes) ==
    IF writes = <<>> THEN cur ELSE setAudioData(cur, writes[Len(writes)])

\* One commit of the component with the props np and the analysis sa: every
\* effect whose dependencies changed runs its cleanup and then its body, in the
\* order of declaration.  outcome is how initAudioContext proceeds if it is
\* called, token whether localStorage holds an access token, sp the spectrum
\* analyzeAudio reads if it is called.  The result gives the new value of every
\* variable the effects touch and the vectors passed to setAudioData.
Flush(np, sa, outcome, token, sp) ==
    LET \* part_007:106-137
        meydaDeps == np.meydaData # props.meydaData \/ np.isPlaying # props.isPlaying
        meydaOn == np.meydaData # Null /\ np.isPlaying
        \* part_007:178-187 and 140-175 up to the await
        fetchGo == FetchCalled(np)
        \* part_007:190-238
        initGo == InitCalled(np)
        analyser == IF ~initGo THEN analyserRef
                    ELSE IF outcome = "ok" THEN "ready"
                    ELSE IF outcome = "error" THEN "none"
                    ELSE analyserRef
        \* part_007:266-345
        loopDeps == LoopDeps(np)
        loopOn == analyser = "ready" /\ np.isPlaying /\ ~np.isSpotifyMode
        first == analyzeAudio(sp, <<>>, 0, now)
        \* part_007:348-399
        simDeps == \/ np.isSpotifyMode # props.isSpotifyMode
                   \/ np.isPlaying # props.isPlaying
                   \/ np.currentPosition # props.currentPosition
                   \/ sa # spotifyAnalysis
                   \/ np.meydaData # props.meydaData
                   \/ np.spotifyTrackData # props.spotifyTrackData
        simOn == /\ np.isSpotifyMode /\ np.isPlaying /\ np.currentPosition # 0
                 /\ np.meydaData = Null
                 /\ sa = Null
        \* part_007:402-475
        analysisDeps == \/ np.isSpotifyMode # props.isSpotifyMode
                        \/ np.isPlaying # props.isPlaying
                        \/ sa # spotifyAnalysis
                        \/ np.currentPosition # props.currentPosition
        analysisOn == /\ np.isSpotifyMode /\ np.isPlaying /\ sa # Null
                      /\ np.currentPosition # 0
    IN [meydaInterval |->
            IF ~meydaDeps THEN meydaInterval
            ELSE IF meydaOn THEN Some([meydaData |-> np.meydaData[1]]) ELSE Off,
        lastAnalyzedTrackId |->
            IF fetchGo THEN np.currentTrackId ELSE lastAnalyzedTrackId,
        fetching |-> IF fetchGo /\ token THEN np.currentTrackId ELSE fetching,
        isLoadingAnalysis |-> IF fetchGo THEN token ELSE isLoadingAnalysis,
        analyserRef |-> analyser,
        resuming |-> IF initGo /\ outcome = "suspended" THEN TRUE ELSE resuming,
        animationFrameRef |-> IF loopDeps THEN loopOn ELSE animationFrameRef,
        \* the closure of a cancelled loop is unreachable: it is the initial one
        beatLastTime |->
            IF ~loopDeps THEN beatLastTime ELSE IF loopOn THEN first.lastBeatTime ELSE 0,
        beatHistory |->
            IF ~loopDeps THEN beatHistory ELSE IF loopOn THEN first.beatHistory ELSE <<>>,
        flagged |->
            IF loopDeps /\ loopOn /\ first.data.beat THEN flagged \cup {now} ELSE flagged,
        simulationInterval |->
            IF ~simDeps THEN simulationInterval
            ELSE IF simOn
                 THEN Some([currentPosition |-> np.currentPosition,
                            spotifyTrackData |-> np.spotifyTrackData])
                 ELSE Off,
        analysisInterval |->
            IF ~analysisDeps THEN analysisInterval
            ELSE IF analysisOn
                 THEN Some([currentPosition |-> np.currentPosition,
                            spotifyAnalysis |-> sa[1]])
                 ELSE Off,
        writes |->
            (IF meydaDeps /\ meydaOn
             THEN <<convertMeydaToAudioData(np.meydaData[1])>> ELSE <<>>)
            \o (IF loopDeps /\ loopOn THEN <<first.data>> ELSE <<>>)]

\* the commit of a render with the props np and the analysis sa, r being the
\* result of its effects
Commit(np, sa, r) ==
    /\ props' = np
    /\ spotifyAnalysis' = sa
    /\ isPlayingRef' = np.isPlaying
    /\ meydaInterval' = r.meydaInterval
    /\ lastAnalyzedTrackId' = r.lastAnalyzedTrackId
    /\ analyserRef' = r.analyserRef
    /\ resuming' = r.resuming
    /\ animationFrameRef' = r.animationFrameRef
    /\ beatLastTime' = r.beatLastTime
    /\ beatHistory' = r.beatHistory
    /\ flagged' = r.flagged
    /\ simulationInterval' = r.simulationInterval
    /\ analysisInterval' = r.analysisInterval
    /\ audioData' = LastWrite(audioData, r.writes)
    /\ audioDataRef' = IF r.writes = <<>> THEN audioDataRef ELSE audioData'
    /\ published' = (published \/ r.writes # <<>>)
    /\ lastPublished' = IF r.writes = <<>> THEN lastPublished ELSE r.writes[Len(r.writes)]
    /\ UNCHANGED <<now, loopVars, canvasVars, serviceVars, reccoVars, playerVars>>

\* the parent passes the props np: render, commit, effects
Render(np) ==
    /\ mounted
    /\ \E outcome \in IF InitCalled(np) THEN InitOutcomes ELSE {"ok"},
       token \in IF FetchCalled(np) THEN BOOLEAN ELSE {TRUE},
       sp \in IF LoopDeps(np) THEN Spectra ELSE {CHOOSE x \in Spectra : TRUE} :
        LET r == Flush(np, spotifyAnalysis, outcome, token, sp)
        IN /\ Commit(np, spotifyAnalysis, r)
           /\ fetching' = r.fetching
           /\ isLoadingAnalysis' = r.isLoadingAnalysis

\* the parent passes a new value for one prop
SetAudioElement(x) ==
    x # props.audioElement /\ Render([props EXCEPT !.audioElement = x])

SetIsPlaying(b) ==
    b # props.isPlaying /\ Render([props EXCEPT !.isPlaying = b])

SetSpotifyMode(b) ==
    b # props.isSpotifyMode /\ Render([props EXCEPT !.isSpotifyMode = b])

SetSpotifyTrackData(t) ==
    t # props.spotifyTrackData
    /\ Render([props EXCEPT !.spotifyTrackData = t])

SetMeydaData(m) ==
    m # props.meydaData /\ Render([props EXCEPT !.meydaData = m])

SetCurrentTrackId(id) ==
    id # props.currentTrackId /\ Render([props EXCEPT !.currentTrackId = id])

SetCurrentPosition(p) ==
    p # props.currentPosition /\ Render([props EXCEPT !.currentPosition = p])

\* the request of fetchSpotifyAudioAnalysis settles (part_007:157-174): result is
\* the analysis of a 200 response, Null after 403, another status or an exception
FetchDone(result) ==
    /\ mounted
    /\ fetching # Null
    /\ Commit(props, result, Flush(props, result, "ok", TRUE, CHOOSE x \in Spectra : TRUE))
    /\ fetching' = Null
    /\ isLoadingAnalysis' = FALSE

\* resume() of initAudioContext settles (part_007:200-222): the analyser is
\* created and connected, or an exception resets the refs
ResumeDone(ok) ==
    /\ mounted
    /\ resuming
    /\ resuming' = FALSE
    /\ analyserRef' = IF ok THEN "ready" ELSE "none"
    /\ UNCHANGED <<inputVars, timerVars, beatVars, dataVars, refVars, loopVars, canvasVars,
                   serviceVars, reccoVars, playerVars>>

\* the interval of part_007:134 fires
MeydaTick ==
    /\ meydaInterval # Off
    /\ Publish(convertMeydaToAudioData(meydaInterval[1].meydaData))
    /\ UNCHANGED <<inputVars, audioVars, timerVars, beatVars, isPlayingRef, loopVars, canvasVars,
                   serviceVars, reccoVars, playerVars>>

\* the interval of part_007:396 fires
SimulationTick(rnd) ==
    /\ simulationInterval # Off
    /\ Publish(simulateEnhancedAudioData(simulationInterval[1].currentPosition,
                                          simulationInterval[1].spotifyTrackData, rnd))
    /\ UNCHANGED <<inputVars, audioVars, timerVars, beatVars, isPlayingRef, loopVars, canvasVars,
                   serviceVars, reccoVars, playerVars>>

\* the interval of part_007:472 fires
AnalysisTick(rnds) ==
    /\ analysisInterval # Off
    /\ LET v == updateAudioDataFromAnalysis(analysisInterval[1].currentPosition,
                                            analysisInterval[1].spotifyAnalysis, rnds)
       IN IF v = Null THEN UNCHANGED <<dataVars, audioDataRef>> ELSE Publish(v[1])
    /\ UNCHANGED <<inputVars, audioVars, timerVars, beatVars, isPlayingRef, loopVars, canvasVars,
                   serviceVars, reccoVars, playerVars>>

\* the animation frame requested at part_007:335 runs analyzeAudio, gap ms after
\* the previous call
AnalyzeFrame(sp, gap) ==
    /\ animationFrameRef
    /\ now' = now + gap
    /\ IF analyserRef = "none"
       THEN /\ animationFrameRef' = FALSE
            /\ UNCHANGED <<beatLastTime, beatHistory, flagged, dataVars, audioDataRef>>
       ELSE LET r == analyzeAudio(sp, beatHistory, beatLastTime, now')
            IN /\ Publish(r.data)
               /\ beatHistory' = r.beatHistory
               /\ beatLastTime' = r.lastBeatTime
               /\ flagged' = IF r.data.beat THEN flagged \cup {now'} ELSE flagged
               /\ animationFrameRef' = TRUE
    /\ UNCHANGED <<inputVars, audioVars, meydaInterval, simulationInterval,
                   analysisInterval, isPlayingRef, loopVars, canvasVars, serviceVars,
                   reccoVars, playerVars>>

\* The component unmounts: the cleanup of every effect runs (part_007:130-137,
\* 225-235, 338-342, 396-398, 472-474, 703-708).  Each clears the timer or frame
\* request its effect armed; the canvas effect also removes the resize listener.
Unmount ==
    /\ mounted
    /\ mounted' = FALSE
    /\ listening' = FALSE
    /\ frames' = IF animationId # 0 THEN cancelAnimationFrame(frames, animationId) ELSE frames
    /\ meydaInterval' = Off
    /\ simulationInterval' = Off
    /\ analysisInterval' = Off
    /\ animationFrameRef' = FALSE
    /\ beatLastTime' = 0
    /\ beatHistory' = <<>>
    /\ UNCHANGED <<time, lastBeatTime, clampedPulse, targetPoints, e, ticks, drawn,
                   animationId, inner, dpr, canvas, surface, refVars, inputVars, audioVars, now, flagged,
                   dataVars, serviceVars, reccoVars, playerVars>>

\* each draw of Math.random() in one call of updateAudioDataFromAnalysis
RandomTriples == {<<0, 0, 0>>, <<9000, 0, 5000>>}

\* SpecSources runs the analyser's frames within the millisecond in which its
\* effect ran, up to a history of MaxSourceHistory samples; SpecAnalyser runs
\* them with every gap of FrameGaps for MaxElapsed ms
MaxSourceHistory == 2
SourceGaps == {0}
MaxElapsed == 400

NextSources ==
    \/ \E x \in AudioElements \cup {Null} : SetAudioElement(x)
    \/ \E b \in BOOLEAN : SetIsPlaying(b)
    \/ \E b \in BOOLEAN : SetSpotifyMode(b)
    \/ \E t \in {Some(m) : m \in TrackMetrics} \cup {Null} : SetSpotifyTrackData(t)
    \/ \E m \in {Some(f) : f \in MeydaFeatures} \cup {Null} : SetMeydaData(m)
    \/ \E id \in {Some(i) : i \in TrackIds} \cup {Null} : SetCurrentTrackId(id)
    \/ \E p \in Positions : SetCurrentPosition(p)
    \/ \E result \in {Some(a) : a \in Analyses} \cup {Null} : FetchDone(result)
    \/ \E ok \in BOOLEAN : ResumeDone(ok)
    \/ MeydaTick
    \/ \E rnd \in RandomDraws : SimulationTick(rnd)
    \/ \E rnds \in RandomTriples : AnalysisTick(rnds)
    \/ \E sp \in Spectra, gap \in SourceGaps :
          Len(beatHistory) < MaxSourceHistory /\ AnalyzeFrame(sp, gap)

SpecSources == InitSources /\ [][NextSources]_vars

\* the live spectral source alone: a local audio element, playback switched on
\* and off, and the analyser's frames
NextAnalyser ==
    \/ \E x \in AudioElements \cup {Null} : SetAudioElement(x)
    \/ \E b \in BOOLEAN : SetIsPlaying(b)
    \/ \E ok \in BOOLEAN : ResumeDone(ok)
    \/ \E sp \in Spectra, gap \in FrameGaps :
          now + gap <= MountTime + MaxElapsed /\ AnalyzeFrame(sp, gap)
    \/ Unmount

SpecAnalyser == InitSources /\ [][NextAnalyser]_vars

\* a requested frame of analyzeAudio runs (part_007:335): within NextAnalyser
\* these are the steps of AnalyzeFrame
AnalyserFrame ==
    /\ animationFrameRef
    /\ \E gap \in FrameGaps : now + gap <= MountTime + MaxElapsed /\ now' = now + gap

SpecAnalyserFair == SpecAnalyser /\ WF_now(AnalyserFrame)

\* the live spectral source over a run of frames long enough to fill its
\* beatHistory: one frame every WindowGap ms for MaxWindowElapsed ms, the
\* signal loud in one frame of every WindowPeriod and silent in the others
WindowGap == 100
MaxWindowElapsed == 1200
WindowPeriod == 4

NextWindow ==
    \/ \E x \in AudioElements \cup {Null} : SetAudioElement(x)
    \/ \E b \in BOOLEAN : SetIsPlaying(b)
    \/ \E ok \in BOOLEAN : ResumeDone(ok)
    \/ \E sp \in Spectra :
          /\ now + WindowGap <= MountTime + MaxWindowElapsed
          /\ (sp.bass > 0) <=> ((now \div WindowGap) % WindowPeriod = 0)
          /\ AnalyzeFrame(sp, WindowGap)

SpecWindow == InitSources /\ [][NextWindow]_vars

-----------------------------------------------------------------------------
(* The render loop fed by an arbitrary publisher *)

NextLoop ==
    \/ Tick
    \/ \E win \in WindowSizes : Resize(win)
    \/ \E v \in ControlVectors : v # audioDataRef /\ CommitAudioData(v)
    \/ \E b \in BOOLEAN : b # isPlayingRef /\ CommitIsPlaying(b)

SpecLoop == InitAll /\ [][NextLoop]_vars

\* The canvas effect under every outcome of acquiring the drawing surface: the
\* loop, the window resized with and without the listener, the two refs and the
\* unmount.
InitCanvas == MountedOn(Surfaces, {0}, {TRUE})

\* the window takes the size win while handleResize is not a listener
WindowResized(win) ==
    /\ ~listening
    /\ inner' = win
    /\ UNCHANGED <<dpr, canvas, mounted, surface, listening, loopVars, refVars, sourceVars,
                   dataVars, serviceVars, reccoVars, playerVars>>

NextCanvas ==
    \/ Tick
    \/ \E win \in WindowSizes : Resize(win)
    \/ \E win \in WindowSizes : WindowResized(win)
    \/ \E v \in ControlVectors : v # audioDataRef /\ CommitAudioData(v)
    \/ \E b \in BOOLEAN : b # isPlayingRef /\ CommitIsPlaying(b)
    \/ Unmount

SpecCanvas == InitCanvas /\ [][NextCanvas]_vars

\* The render loop beside the sources' failures: the audio context that throws
\* or stays suspended, the analysis request that fails, playback switched off,
\* the component unmounting.  The browser runs every requested animation frame,
\* hence weak fairness of the loop's frame.
NextFaults ==
    \/ Tick
    \/ \E x \in AudioElements \cup {Null} : SetAudioElement(x)
    \/ \E b \in BOOLEAN : SetIsPlaying(b)
    \/ \E b \in BOOLEAN : SetSpotifyMode(b)
    \/ \E id \in {Some(i) : i \in TrackIds} \cup {Null} : SetCurrentTrackId(id)
    \/ \E result \in {Some(a) : a \in Analyses} \cup {Null} : FetchDone(result)
    \/ \E ok \in BOOLEAN : ResumeDone(ok)
    \/ Unmount

\* a requested frame of loop runs: within NextFaults these are the steps of Tick
LoopFrame == frames # {} /\ ticks < MaxTicks /\ ticks' = ticks + 1

SpecFaults == InitSources /\ [][NextFaults]_vars /\ WF_ticks(LoopFrame)

-----------------------------------------------------------------------------
(* The simulation publisher over a track's positions *)

\* the metrics {energy: 1, danceability: 1, valence: 1}
FullMetrics == [energy |-> Scale, danceability |-> Scale, valence |-> Scale]

\* playback positions, one per second over a period of Math.sin(t * 0.3)
MaxSimSeconds == 21
SimPositions == {1000 * k : k \in 0..MaxSimSeconds}

\* Math.random() outcomes, 1/Scale
SimDraws == {0, Scale \div 2, Scale - 1}

NextSimulation ==
    \/ \E b \in BOOLEAN : SetIsPlaying(b)
    \/ \E b \in BOOLEAN : SetSpotifyMode(b)
    \/ \E t \in {Some(FullMetrics), Null} : SetSpotifyTrackData(t)
    \/ \E p \in SimPositions : SetCurrentPosition(p)
    \/ \E rnd \in SimDraws : SimulationTick(rnd)

SpecSimulation == InitSources /\ [][NextSimulation]_vars

-----------------------------------------------------------------------------
(* The render loop under scripted ControlVectors *)

ScenarioTicks == 300

\* the ticks before which the beat is fed
BeatTicks == {1, 100}

\* bass 0.5 and a positive overall level
SteadyVector ==
    [bass |-> Scale \div 2, mid |-> 0, treble |-> 0, overall |-> Scale \div 10, beat |-> FALSE]
BeatVector == [SteadyVector EXCEPT !.beat = TRUE]

\* every arrived particle moves on to the next target point
ScenarioDraws == {[kind |-> "advance", to |-> 0]}

\* playback is switched on before the first tick
ScenarioPlay == ticks = 0 /\ ~isPlayingRef /\ CommitIsPlaying(TRUE)

\* the publisher feeds the steady vector before the first tick
ScenarioFeed == ticks = 0 /\ audioDataRef = DefaultAudioData /\ CommitAudioData(SteadyVector)

\* the publisher flags a beat; no beat has been seen yet
ScenarioBeat ==
    /\ ticks \in BeatTicks
    /\ audioDataRef = SteadyVector
    /\ lastBeatTime = 0
    /\ CommitAudioData(BeatVector)

\* the beat tick has run: the next vector carries no beat
ScenarioBeatEnds ==
    /\ audioDataRef = BeatVector
    /\ lastBeatTime > 0
    /\ CommitAudioData(SteadyVector)

\* a tick of loop; the vector with the beat is read by one tick only
ScenarioTick ==
    /\ ~(audioDataRef = BeatVector /\ lastBeatTime > 0)
    /\ LoopTick(ScenarioTicks, ScenarioDraws)

NextScenario ==
    \/ ScenarioPlay
    \/ ScenarioFeed
    \/ ScenarioBeat
    \/ ScenarioBeatEnds
    \/ ScenarioTick

SpecScenario == InitSources /\ [][NextScenario]_vars

\* the same scenario run for PhaseTicks ticks, over which the phase passes a
\* whole period of Math.sin(time)
PhaseTicks == 500

PhaseTick ==
    /\ ~(audioDataRef = BeatVector /\ lastBeatTime > 0)
    /\ LoopTick(PhaseTicks, ScenarioDraws)

NextPhase ==
    \/ ScenarioPlay
    \/ ScenarioFeed
    \/ ScenarioBeat
    \/ ScenarioBeatEnds
    \/ PhaseTick

SpecPhase == InitSources /\ [][NextPhase]_vars

-----------------------------------------------------------------------------
(* MeydaAudioService: services/meyda.ts *)

AnalysisTimeout == 30 * 1000
mfccLength == 13
chromaLength == 12

\* the optional trackData of startAnalysis; an absent metric is 0, which  ||
\* treats as it treats undefined.  tempo in BPM, loudness in dB, the rest 1/Scale
NoTrackData == [tempo |-> 0, energy |-> 0, danceability |-> 0, valence |-> 0, loudness |-> 0]
ServiceTrackData ==
    { NoTrackData,
      [tempo |-> 90, energy |-> 8000, danceability |-> 7000, valence |-> 3000,
       loudness |-> 0 - 6] }

\* the defaults of meyda.ts:374-378
FallbackTrackData ==
    [tempo |-> 120, energy |-> Scale \div 2, danceability |-> Scale \div 2,
     valence |-> Scale \div 2, loudness |-> 0 - 10]

\* Math.max(0.1, Math.min(1, x))
ClampTenth(x) == Max(Scale \div 10, Min(Scale, x))

\* the features computed from the metrics m at Date.now() = t ms: meyda.ts:380-418
trackFeatures(t, m) ==
    LET s == t * (Scale \div 1000)
        beats == Quot(s * m.tempo, 60)
        beatTime == beats % (4 * Scale)
        beatIntensity == Quot(Sin(Quot(Quot(beatTime, 10) * TwoPi, 1000)), 2) + Scale \div 2
        measureTime == beats % (16 * Scale)
        measureIntensity ==
            Quot(Sin(Quot(Quot(measureTime, 10) * Pi, 8000)) * 3, 10) + (7 * Scale) \div 10
    IN [rms |-> ClampTenth(Quot(Quot(m.energy * beatIntensity, Scale) * measureIntensity, Scale)),
        spectralCentroid |->
            ClampTenth(Quot(m.valence * 7, 10) + Quot(m.energy * 3, 10) + Quot(Sin(2 * s), 10)),
        spectralRolloff |->
            ClampTenth(Quot(m.energy * 8, 10) + Quot(Sin(Quot(s * 15, 10)) * 2, 10)),
        spectralFlux |-> Clamp01(Quot(Quot(m.danceability * beatIntensity, Scale), 2)),
        spectralSpread |->
            ClampTenth(Quot(m.energy * 6, 10) + Quot(Sin(3 * s) * 2, 10)),
        spectralKurtosis |->
            ClampTenth(Quot(m.valence * 5, 10) + Quot(Sin(Quot(s * 12, 10)) * 3, 10)),
        loudness |->
            ClampTenth(Quot((m.energy + Quot(m.loudness * Scale, 60)) * beatIntensity, Scale)),
        mfcc |-> [i \in 1..mfccLength |->
                    Clamp01(Quot(m.energy * (Scale + Quot(Sin(Quot(s * i, 2)) * 3, 10)), Scale))],
        chroma |-> [i \in 1..chromaLength |->
                    Clamp01(Quot(m.valence * (Scale + Quot(Sin(Quot(s * i * 3, 10)) * 4, 10)),
                                 Scale))]]

\* generateTrackBasedFeatures without the defaults
generateTrackBasedFeaturesRaw(t, trackData) == trackFeatures(t, trackData)

\* generateTrackBasedFeatures: meyda.ts:372-421, at Date.now() = t
generateTrackBasedFeatures(t, trackData) ==
    trackFeatures(t, [tempo |-> OrElse(trackData.tempo, FallbackTrackData.tempo),
                      energy |-> OrElse(trackData.energy, FallbackTrackData.energy),
                      danceability |->
                          OrElse(trackData.danceability, FallbackTrackData.danceability),
                      valence |-> OrElse(trackData.valence, FallbackTrackData.valence),
                      loudness |-> OrElse(trackData.loudness, FallbackTrackData.loudness)])

\* the feature set of the catch block: meyda.ts:222-232
NeutralFeatures ==
    [rms |-> Scale \div 10, spectralCentroid |-> Scale \div 2, spectralRolloff |-> Scale \div 2,
     spectralFlux |-> 0, spectralSpread |-> Scale \div 2, spectralKurtosis |-> Scale \div 2,
     loudness |-> Scale \div 10,
     mfcc |-> [i \in 1..mfccLength |-> 0], chroma |-> [i \in 1..chromaLength |-> 0]]

\* typeof x === 'number' ? x : 0, a raw value being Null or Some(number)
NumberOr0(x) == IF x = Null THEN 0 ELSE x[1]

\* the normalisation of one raw frame: meyda.ts:205-216, 287-350.  rms, kurtosis,
\* mfcc and chroma in 1/Scale, centroid, rolloff and spread in Hz, loudness.total
\* in 1/Scale
processedFeatures(raw) ==
    [rms |-> Clamp01(NumberOr0(raw.rms)),
     spectralCentroid |-> Clamp01(Quot(NumberOr0(raw.spectralCentroid) * Scale, 8000)),
     spectralRolloff |-> Clamp01(Quot(NumberOr0(raw.spectralRolloff) * Scale, 22050)),
     spectralFlux |-> 0,
     spectralSpread |-> Clamp01(Quot(NumberOr0(raw.spectralSpread) * Scale, 4000)),
     spectralKurtosis |-> Clamp01(NumberOr0(raw.spectralKurtosis)),
     loudness |-> Clamp01(Quot(NumberOr0(raw.loudness), 100)),
     mfcc |-> IF raw.mfcc = Null THEN <<>>
              ELSE [i \in DOMAIN raw.mfcc[1] |-> Clamp01(Quot(raw.mfcc[1][i] + 10 * Scale, 20))],
     chroma |-> IF raw.chroma = Null THEN <<>>
                ELSE [i \in DOMAIN raw.chroma[1] |-> Clamp01(raw.chroma[1][i])]]

\* frames handed over by the Meyda analyzer: a well-formed one and one whose
\* features are all absent
RawFrames ==
    { [rms |-> Some(3000), spectralCentroid |-> Some(4000), spectralRolloff |-> Some(11025),
       spectralSpread |-> Some(2000), spectralKurtosis |-> Some(15000),
       loudness |-> Some(24 * Scale), mfcc |-> Some(<<0 - 5 * Scale, 0, 20 * Scale>>),
       chroma |-> Some(<<5000, 12000>>)],
      [rms |-> Null, spectralCentroid |-> Null, spectralRolloff |-> Null,
       spectralSpread |-> Null, spectralKurtosis |-> Null, loudness |-> Null,
       mfcc |-> Null, chroma |-> Null] }

MaxAnalyzers == 2
MaxCalls == 2
MaxDeliveries == 2
ClockStep == 15 * 1000
MaxServiceElapsed == 45 * 1000

\* analyzer.stop() of the analyzer id: the Meyda analyzer stops; the object of
\* meyda.ts:430-435 clears its interval and sets this.currentAnalyzer to null
StopAnalyzer(as, id) == [as EXCEPT ![id].running = FALSE]
CurrentAfterStop(as, cur) ==
    IF cur # Null /\ as[cur[1]].kind = "track" THEN Null ELSE cur

\* a start that leaves the analyzer it replaces running
StopCurrentSkipped(as, cur) == as

\* if (this.currentAnalyzer) this.currentAnalyzer.stop()
StopCurrent(as, cur) == IF cur = Null THEN as ELSE StopAnalyzer(as, cur[1])

\* the callback of the analyzer id is invoked with f
Deliver(id, f, caught, raw) ==
    LET same == delivered # Null /\ delivered[1].by = id
    IN Some([by |-> id, at |-> now, features |-> f,
             n |-> IF same THEN Min(delivered[1].n + 1, MaxDeliveries) ELSE 1,
             caught |-> caught,
             prev |-> IF ~same THEN "none" ELSE IF delivered[1].caught THEN "caught" ELSE "ok",
             raw |-> raw])

\* a call that reaches await loadMeyda() resumes before the calls already suspended
SuspendAhead(q, c) == <<c>> \o q

\* a call suspends at await loadMeyda(): the continuations run in the order in
\* which the calls were made
Suspend(q, c) == Append(q, c)

\* the marks of the cleanup() calls whose stopAnalysis is suspended in q, and a
\* mark none of them bears (history)
PendingCleanups(q) == {q[i].cleanup : i \in DOMAIN q} \ {0}
FreeMark(q) == CHOOSE k \in 1..(Len(q) + 1) : k \notin PendingCleanups(q)

\* a call of op: cleanup is the mark of the cleanup() that made it, 0 for a
\* caller's own call; after holds the marks of the cleanups that had returned
\* and whose stopAnalysis had not resumed when the call was made; spared tells
\* that the stopAnalysis of such a cleanup has resumed since (history)
ServiceCall(op, trackData, cleanup, after) ==
    [op |-> op, trackData |-> trackData, cleanup |-> cleanup, after |-> after,
     spared |-> FALSE]

\* the analyzer created by the startAnalysis call at the head of calls
NewAnalyzer(kind, trackData) ==
    [kind |-> kind, running |-> TRUE, startedAt |-> now, trackData |-> trackData,
     stopResolved |-> FALSE, after |-> Head(calls).after]

\* a caller invokes startAnalysis(callback, trackData): it suspends at
\* await loadMeyda() (meyda.ts:167)
CallStartAnalysis(trackData) ==
    /\ Len(calls) < MaxCalls
    /\ Len(analyzers) + Cardinality({i \in DOMAIN calls : calls[i].op = "start"}) < MaxAnalyzers
    /\ calls' = Suspend(calls, ServiceCall("start", trackData, 0, PendingCleanups(calls)))
    /\ UNCHANGED <<Meyda, audioContext, currentAnalyzer, analyzers, timeouts, delivered,
                   now, componentVars, reccoVars, playerVars>>

\* a caller invokes stopAnalysis(): it suspends at await loadMeyda() (meyda.ts:259)
CallStopAnalysis ==
    /\ Len(calls) < MaxCalls
    /\ calls' = Suspend(calls, ServiceCall("stop", NoTrackData, 0, {}))
    /\ UNCHANGED <<Meyda, audioContext, currentAnalyzer, analyzers, timeouts, delivered,
                   now, componentVars, reccoVars, playerVars>>

\* cleanup(): meyda.ts:272-284.  stopAnalysis() is called and not awaited, the
\* source node and the context are dropped at once
CallCleanup ==
    /\ Len(calls) < MaxCalls
    /\ calls' = Suspend(calls, ServiceCall("stop", NoTrackData, FreeMark(calls), {}))
    /\ audioContext' = FALSE
    /\ UNCHANGED <<Meyda, currentAnalyzer, analyzers, timeouts, delivered, now, componentVars,
                   reccoVars, playerVars>>

\* a caller invokes initializeAudioContext(): it suspends at await loadMeyda()
\* (meyda.ts:105)
CallInitializeAudioContext ==
    /\ Len(calls) < MaxCalls
    /\ calls' = Suspend(calls, ServiceCall("init", NoTrackData, 0, {}))
    /\ UNCHANGED <<Meyda, audioContext, currentAnalyzer, analyzers, timeouts, delivered,
                   now, componentVars, reccoVars, playerVars>>

\* startTrackBasedAnalysis: meyda.ts:356-437
startTrackBasedAnalysis(trackData) ==
    LET id == Len(analyzers) + 1
    IN /\ analyzers' = Append(StopCurrent(analyzers, currentAnalyzer),
                              NewAnalyzer("track", trackData))
       /\ delivered' = Deliver(id, generateTrackBasedFeatures(now, trackData), FALSE, Null)
       /\ currentAnalyzer' = Some(id)
       /\ UNCHANGED timeouts

\* startAnalysis resumes after await loadMeyda(): meyda.ts:168-256.  created
\* tells whether createMeydaAnalyzer returns or throws
ResumeStartAnalysis(trackData, created) ==
    IF ~Meyda \/ ~audioContext
    THEN startTrackBasedAnalysis(trackData)
    ELSE LET stopped == StopCurrent(analyzers, currentAnalyzer)
             id == Len(analyzers) + 1
         IN IF created
            THEN /\ analyzers' = Append(stopped, NewAnalyzer("meyda", trackData))
                 /\ currentAnalyzer' = Some(id)
                 /\ timeouts' = timeouts \cup {now + AnalysisTimeout}
                 /\ UNCHANGED delivered
            ELSE /\ analyzers' = stopped
                 /\ currentAnalyzer' = CurrentAfterStop(analyzers, currentAnalyzer)
                 /\ UNCHANGED <<timeouts, delivered>>

\* stopAnalysis resumes after await loadMeyda() and resolves: meyda.ts:260-269.
\* stopResolved marks the analyzers of the startAnalysis calls that preceded it
\* (history)
ResumeStopAnalysis ==
    LET stopped == IF Meyda THEN StopCurrent(analyzers, currentAnalyzer) ELSE analyzers
    IN /\ analyzers' = [i \in DOMAIN stopped |->
                           [stopped[i] EXCEPT !.stopResolved = TRUE,
                                              !.after = @ \ {Head(calls).cleanup}]]
       /\ currentAnalyzer' = IF Meyda THEN Null ELSE currentAnalyzer
       /\ UNCHANGED <<timeouts, delivered>>

\* the head of calls resumes
Resume(created) ==
    /\ calls # <<>>
    /\ LET c == Head(calls)
       IN \/ /\ c.op = "start"
             /\ ResumeStartAnalysis(c.trackData, created)
             /\ calls' = Tail(calls)
             /\ UNCHANGED audioContext
          \/ /\ c.op = "stop"
             /\ created
             /\ ResumeStopAnalysis
             /\ calls' = [i \in DOMAIN Tail(calls) |->
                             [Tail(calls)[i] EXCEPT
                                 !.after = @ \ {c.cleanup},
                                 !.spared = @ \/ c.cleanup \in Tail(calls)[i].after]]
             /\ UNCHANGED audioContext
          \* initializeAudioContext: meyda.ts:106-158; created tells whether the
          \* context and the synthetic source are created or an exception is caught
          \/ /\ c.op = "init"
             /\ IF Meyda
                THEN /\ calls' = Suspend(Tail(calls),
                                        ServiceCall("stop", NoTrackData,
                                                    FreeMark(Tail(calls)), {}))
                     /\ audioContext' = created
                ELSE /\ created
                     /\ calls' = Tail(calls)
                     /\ UNCHANGED audioContext
             /\ UNCHANGED <<currentAnalyzer, analyzers, timeouts, delivered>>
    /\ UNCHANGED <<Meyda, now, componentVars, reccoVars, playerVars>>

\* a callback whose catch block passes on what was computed
frameCallbackPassing(raw, thrown) ==
    [features |-> processedFeatures(raw), caught |-> thrown]

\* the callback of meyda.ts:202-235 on the frame raw: what the consumer receives;
\* thrown tells whether processing the frame throws
frameCallback(raw, thrown) ==
    IF thrown THEN [features |-> NeutralFeatures, caught |-> TRUE]
    ELSE [features |-> processedFeatures(raw), caught |-> FALSE]

\* the Meyda analyzer id hands a frame to its callback
MeydaFrame(id, raw, thrown) ==
    /\ id \in DOMAIN analyzers
    /\ analyzers[id].kind = "meyda"
    /\ analyzers[id].running
    /\ LET r == frameCallback(raw, thrown)
       IN delivered' = Deliver(id, r.features, r.caught, Some(raw))
    /\ UNCHANGED <<Meyda, audioContext, currentAnalyzer, analyzers, timeouts, calls,
                   now, componentVars, reccoVars, playerVars>>

\* the interval of meyda.ts:427 of the track-based analyzer id fires
TrackFrame(id) ==
    /\ id \in DOMAIN analyzers
    /\ analyzers[id].kind = "track"
    /\ analyzers[id].running
    /\ delivered' = Deliver(id, generateTrackBasedFeatures(now, analyzers[id].trackData),
                            FALSE, Null)
    /\ UNCHANGED <<Meyda, audioContext, currentAnalyzer, analyzers, timeouts, calls,
                   now, componentVars, reccoVars, playerVars>>

\* the timer of meyda.ts:243-251 that is due fires: it stops whatever analyzer
\* is the current one
AnalysisTimeoutFires(due) ==
    /\ due \in timeouts
    /\ now >= due
    /\ calls = <<>>
    /\ timeouts' = timeouts \ {due}
    /\ analyzers' = StopCurrent(analyzers, currentAnalyzer)
    /\ currentAnalyzer' = CurrentAfterStop(analyzers, currentAnalyzer)
    /\ UNCHANGED <<Meyda, audioContext, calls, delivered, now, componentVars, reccoVars, playerVars>>

\* time passes; the suspended calls resume and the due timers fire before it does
AdvanceClock ==
    /\ calls = <<>>
    /\ \A due \in timeouts : now < due
    /\ now + ClockStep <= MountTime + MaxServiceElapsed
    /\ now' = now + ClockStep
    /\ UNCHANGED <<serviceVars, componentVars, reccoVars, playerVars>>

NextService ==
    \/ \E td \in ServiceTrackData : CallStartAnalysis(td)
    \/ CallStopAnalysis
    \/ CallCleanup
    \/ CallInitializeAudioContext
    \/ \E created \in BOOLEAN : Resume(created)
    \/ \E id \in 1..MaxAnalyzers, raw \in RawFrames, thrown \in BOOLEAN : MeydaFrame(id, raw, thrown)
    \/ \E id \in 1..MaxAnalyzers : TrackFrame(id)
    \/ \E due \in timeouts : AnalysisTimeoutFires(due)
    \/ AdvanceClock

InitService == Mounted({0}, BOOLEAN)

SpecService == InitService /\ [][NextService]_vars

-----------------------------------------------------------------------------
(* Properties of the render loop, checked under SpecLoop *)

\* C1: after any number of ticks, for every committed ControlVector and playing or
\* not, the scalar passed to pulse(kx, ky) lies in [0.5, 1.8].
C1_PulseClamped == ticks > 0 => (PulseMin <= clampedPulse /\ clampedPulse <= PulseMax)

\* a tick has run with playback on under the adversarial vector (overall = bass = 1,
\* beat) and the product of the factors was cut to the upper bound
C1_Witness ==
    /\ ticks > 0
    /\ isPlayingRef
    /\ audioDataRef.overall = Scale /\ audioDataRef.bass = Scale /\ audioDataRef.beat
    /\ lastBeatTime > 0
    /\ clampedPulse = PulseMax

\* C2: after initialisation and any number of ticks, whatever the random
\* re-targeting outcomes, every particle's target index q satisfies 0 <= q < N.
C2_TargetIndexInRange ==
    \A k \in 1..Len(e) : 0 <= e[k].q /\ e[k].q < heartPointsCount

\* an arrived particle wandering downwards stepped from index 0 and wrapped to N - 1
C2_Witness ==
    \E k \in DOMAIN drawn :
        /\ drawn[k].kind = "advance"
        /\ e[k].D = 0 - 1
        /\ e[k].q = heartPointsCount - 1

\* C3: the number of particles is the curve sample count N after initialisation
\* and after any sequence of ticks and resize events, and the re-scaled target set
\* has the same length.
C3_ParticleCountIsN ==
    /\ Len(e) = Len(pointsOrigin)
    /\ ticks > 0 => Len(targetPoints) = Len(e)

\* ticks have run and the window has been resized to another size
C3_Witness ==
    /\ ticks = MaxTicks
    /\ inner # InitialWindow
    /\ canvas.painted = "black"
    /\ Len(e) = 3 * SamplesPerTier

\* a step of handleResize: the canvas is sized and painted opaque again
ResizeStep == canvas' # canvas /\ canvas'.painted = "black"

\* C4: a resize changes only the canvas dimensions, style size, context scale and
\* background; the particles (trail, velocity, target index, wander direction,
\* speed, damping, colour), the phase state and the refs are unchanged, so
\* resizing to the same dimensions is the same as not resizing.
C4_ResizeKeepsParticles ==
    [][ResizeStep =>
          /\ e' = e
          /\ UNCHANGED <<time, lastBeatTime, clampedPulse, targetPoints, ticks, drawn>>
          /\ UNCHANGED <<dpr, refVars>>
          /\ canvas' = SizedCanvas(inner', dpr)]_vars

\* a resize to the window's current size has run after ticks moved the particles
C4_Witness ==
    /\ ticks > 0
    /\ canvas.painted = "black"
    /\ canvas.width = inner.w * dpr
    /\ \E k \in 1..Len(e) : e[k].vx # 0 \/ e[k].vy # 0

-----------------------------------------------------------------------------
(* Properties of the publishers, checked under SpecSources and SpecAnalyser *)

Publishers == {"analyser", "meyda", "simulation", "analysis"}

\* the publishers with a callback armed
Armed ==
    {p \in Publishers :
        \/ p = "analyser" /\ animationFrameRef
        \/ p = "meyda" /\ meydaInterval # Off
        \/ p = "simulation" /\ simulationInterval # Off
        \/ p = "analysis" /\ analysisInterval # Off}

\* C5: for every combination of the inputs and after any sequence of changes
\* to them, at most one of the four publishers is armed.
C5_AtMostOnePublisherArmed == Cardinality(Armed) <= 1

\* C6: while playing with both a real-time feature object and track metrics
\* present, the vector the render loop reads is the one computed from the
\* real-time features.
C6_MeydaVectorRead ==
    (props.isPlaying /\ props.meydaData # Null /\ props.spotifyTrackData # Null)
        => audioDataRef = convertMeydaToAudioData(props.meydaData[1])

\* C7: with playback on, no live analyser, no real-time feature object and no
\* track metrics, in either mode and at every position, a publisher is armed
\* (without one no ControlVector is published and overall stays 0).
C7_FallbackPublisherArmed ==
    (/\ props.isPlaying
     /\ analyserRef = "none"
     /\ props.meydaData = Null
     /\ props.spotifyTrackData = Null)
        => Armed # {}

\* C8: in the live spectral source no two flagged beats lie within 200 ms of
\* each other.
C8_BeatsDebounced ==
    \A t1 \in flagged : \A t2 \in flagged : t1 < t2 => t2 - t1 > BeatDebounce

\* C9: the vector a render tick reads is, in all five fields, the object of the
\* latest single publish (the default before any publish): no mixture of the
\* fields of two publishes.
C9_WholeVectorRead == audioDataRef = lastPublished /\ audioData = lastPublished

\* the live spectral source has published, the component has switched to the
\* streamed mode, and the loop now reads a vector of the simulation
C9_Witness ==
    /\ flagged # {}
    /\ props.isSpotifyMode
    /\ simulationInterval # Off
    /\ \E rnd \in RandomDraws :
          audioDataRef = simulateEnhancedAudioData(simulationInterval[1].currentPosition,
                                                   simulationInterval[1].spotifyTrackData, rnd)

ControlFields == {"bass", "mid", "treble", "overall", "beat"}

\* C10: the vector the loop reads always has the five fields, the four levels
\* in [0, 1] and beat a boolean, and is the all-zero default until a source
\* publishes.
C10_VectorDefinedInRange ==
    /\ DOMAIN audioDataRef = ControlFields
    /\ \A f \in ControlFields \ {"beat"} : audioDataRef[f] \in 0..Scale
    /\ audioDataRef.beat \in BOOLEAN
    /\ ~published => audioDataRef = DefaultAudioData

\* the loop reads the conversion of a feature object whose rms and loudness
\* exceed, and whose spectralCentroid lies below, the range of the levels
C10_Witness ==
    /\ published
    /\ meydaInterval # Off
    /\ meydaInterval[1].meydaData.loudness > 100 * Scale
    /\ meydaInterval[1].meydaData.spectralCentroid < 0
    /\ audioDataRef = convertMeydaToAudioData(meydaInterval[1].meydaData)
    /\ audioDataRef.overall = Scale
    /\ audioDataRef.mid = 0

-----------------------------------------------------------------------------
(* ReccoBeatsService: services/reccobeats.ts.  A closure pushed by makeRequest  *)
(* runs in three parts: up to the timer of rateLimit, from there to the fetch,  *)
(* and from the settled fetch to its end, where processQueue's loop shifts the  *)
(* next closure.  Each part runs without interruption.                          *)

\* closures pushed in one behaviour
MaxRequests == 2

\* the instants at which something happens: within two rate-limit delays of the
\* mount, in steps of half a delay, and the same a cache duration later
ReccoInstants ==
    LET half == RATE_LIMIT_DELAY \div 2
    IN {MountTime + k * half : k \in 0..3} \cup
       {MountTime + CACHE_DURATION + k * half : k \in 0..3}

\* a lookup that never expires an entry
cacheFreshForever(entry, t) == entry # Null

\* reccobeats.ts:55: cached && Date.now() - cached.timestamp < CACHE_DURATION
cacheFresh(entry, t) == entry # Null /\ t - entry[1].timestamp < CACHE_DURATION

\* a rateLimit that never waits
rateLimitNone(t, last) == 0

\* rateLimit, reccobeats.ts:17-24: the delay awaited at time t, 0 if none
rateLimit(t, last) ==
    LET timeSinceLastRequest == t - last
    IN IF timeSinceLastRequest < RATE_LIMIT_DELAY
       THEN RATE_LIMIT_DELAY - timeSinceLastRequest
       ELSE 0

\* a processQueue without the test of isProcessingQueue
processQueueUnguarded(flag, queue) == Len(queue) > 0

\* the guard with its sense inverted
processQueueInverted(flag, queue) == flag \/ Len(queue) = 0

\* processQueue, reccobeats.ts:30-32: TRUE iff the call goes on to its loop
processQueueStarts(flag, queue) == ~(flag \/ Len(queue) = 0)

\* this.lastRequestTime = Date.now() and the fetch that follows (reccobeats.ts:26, 64)
FetchStarted(r, t) == [id |-> r.id, key |-> r.key, at |-> t]

\* processQueue's loop shifts the head of queue at time t and runs it up to its
\* first suspension: the timer of rateLimit, or the fetch if there is no delay
Shifted(queue, t, last) ==
    LET r == Head(queue)
        delay == rateLimit(t, last)
    IN [queue |-> Tail(queue),
        closure |-> [id |-> r.id, key |-> r.key,
                     phase |-> IF delay > 0 THEN "waiting" ELSE "fetching",
                     due |-> t + delay],
        fetches |-> IF delay > 0 THEN <<>> ELSE <<FetchStarted(r, t)>>,
        last |-> IF delay > 0 THEN last ELSE t]

\* the times at which a response for key has been stored so far (history)
StoredAt(key) == {f.at : f \in {g \in finished : g.ok /\ g.key = key}}

\* makeRequest(endpoint, trackId), reccobeats.ts:50-103, for the key of both
CallMakeRequest(key) ==
    /\ IF cacheFresh(cache[key], now)
       THEN /\ answered' = [key |-> key, at |-> now, entry |-> cache[key], cached |-> TRUE,
                            data |-> cache[key][1].data, queued |-> FALSE,
                            stored |-> StoredAt(key)]
            /\ UNCHANGED <<requestQueue, isProcessingQueue, running, nextId, fetched,
                           lastRequestTime>>
       ELSE /\ nextId <= MaxRequests
            /\ answered' = [key |-> key, at |-> now, entry |-> cache[key], cached |-> FALSE,
                            data |-> 0, queued |-> TRUE, stored |-> StoredAt(key)]
            /\ nextId' = nextId + 1
            /\ LET pushed == Append(requestQueue, [id |-> nextId, key |-> key])
               IN IF processQueueStarts(isProcessingQueue, pushed)
                  THEN LET sh == Shifted(pushed, now, lastRequestTime)
                       IN /\ isProcessingQueue' = TRUE
                          /\ requestQueue' = sh.queue
                          /\ running' = running \cup {sh.closure}
                          /\ fetched' = fetched \o sh.fetches
                          /\ lastRequestTime' = sh.last
                  ELSE /\ requestQueue' = pushed
                       /\ UNCHANGED <<isProcessingQueue, running, fetched, lastRequestTime>>
    /\ UNCHANGED <<cache, finished, now, componentVars, serviceVars, playerVars>>

\* the timer of rateLimit fires for the closure r (reccobeats.ts:23-26, 64)
RateLimitElapsed(r) ==
    /\ r \in running
    /\ r.phase = "waiting"
    /\ now >= r.due
    /\ lastRequestTime' = now
    /\ fetched' = Append(fetched, FetchStarted(r, now))
    /\ running' = (running \ {r}) \cup {[r EXCEPT !.phase = "fetching"]}
    /\ UNCHANGED <<cache, requestQueue, isProcessingQueue, nextId, finished, answered, now,
                   componentVars, serviceVars, playerVars>>

\* the fetch of the closure r settles with out (reccobeats.ts:72-97); the closure
\* ends and the loop of processQueue goes on (reccobeats.ts:37-47)
FetchSettled(r, ok) ==
    /\ r \in running
    /\ r.phase = "fetching"
    /\ cache' = IF ok
                THEN [cache EXCEPT ![r.key] = Some([data |-> ResponseData(r.id),
                                                    timestamp |-> now])]
                ELSE cache
    /\ finished' = finished \cup {[id |-> r.id, key |-> r.key, ok |-> ok, at |-> now]}
    /\ IF Len(requestQueue) > 0
       THEN LET sh == Shifted(requestQueue, now, lastRequestTime)
            IN /\ requestQueue' = sh.queue
               /\ running' = (running \ {r}) \cup {sh.closure}
               /\ fetched' = fetched \o sh.fetches
               /\ lastRequestTime' = sh.last
               /\ UNCHANGED isProcessingQueue
       ELSE /\ isProcessingQueue' = FALSE
            /\ running' = running \ {r}
            /\ UNCHANGED <<requestQueue, fetched, lastRequestTime>>
    /\ UNCHANGED <<nextId, answered, now, componentVars, serviceVars, playerVars>>

\* clearTrackCache(trackId): reccobeats.ts:139-148
clearTrackCache(trackId) ==
    /\ \E k \in Keys : k.trackId = trackId /\ cache[k] # Null
    /\ cache' = [k \in Keys |-> IF k.trackId = trackId THEN Null ELSE cache[k]]
    /\ UNCHANGED <<lastRequestTime, requestQueue, isProcessingQueue, running, nextId, fetched,
                   finished, answered, now, componentVars, serviceVars, playerVars>>

\* clearAllCache(): reccobeats.ts:151-154
clearAllCache ==
    /\ \E k \in Keys : cache[k] # Null
    /\ cache' = [k \in Keys |-> Null]
    /\ UNCHANGED <<lastRequestTime, requestQueue, isProcessingQueue, running, nextId, fetched,
                   finished, answered, now, componentVars, serviceVars, playerVars>>

\* Date.now() advances to the instant t
ReccoClock(t) ==
    /\ t > now
    /\ now' = t
    /\ UNCHANGED <<reccoVars, componentVars, serviceVars, playerVars>>

NextRecco ==
    \/ \E key \in Keys : CallMakeRequest(key)
    \/ \E r \in running : RateLimitElapsed(r)
    \/ \E r \in running, ok \in Responses : FetchSettled(r, ok)
    \/ \E t \in ReccoTracks : clearTrackCache(t)
    \/ clearAllCache
    \/ \E t \in ReccoInstants : ReccoClock(t)

SpecRecco == InitSources /\ [][NextRecco]_vars

\* the service with time passing until a pending timer of rateLimit is due,
\* every due timer firing and every fetch settling
TimerDue == \E r \in running : r.phase = "waiting" /\ ReccoClock(r.due)

NextReccoFair == NextRecco \/ TimerDue

SpecReccoFair ==
    /\ InitSources
    /\ [][NextReccoFair]_vars
    /\ WF_vars(TimerDue)
    /\ WF_vars(\E r \in running : RateLimitElapsed(r))
    /\ WF_vars(\E r \in running, ok \in Responses : FetchSettled(r, ok))

-----------------------------------------------------------------------------
(* Playback off, checked under SpecLoop *)

\* C11: on every tick whose isPlaying reading is false no audio-derived multiplier
\* is applied, whatever the last published ControlVector holds: the pulse is the
\* natural-rhythm term only, the phase advances with time multiplier 1, and every
\* particle moves with speed multiplier 1 and keeps its colour, i.e. the tick is
\* the one the default (all-zero, no beat) vector produces.
C11_NoAudioMultiplierWhenPaused ==
    [][(ticks' = ticks + 1 /\ ~isPlayingRef) =>
          /\ clampedPulse' = naturalHeartbeat(time)
          /\ time' = time + TimeStep(time, naturalHeartbeat(time), DefaultAudioData, FALSE)
          /\ lastBeatTime' = lastBeatTime
          /\ e' = StepAll(e, targetPoints', DefaultAudioData, FALSE, drawn')]_vars

-----------------------------------------------------------------------------
(* The render loop and the sources' failures, checked under SpecFaults *)

\* C12: from mount until unmount the render loop keeps ticking: every tick (and
\* the mount) is followed by another tick unless the component unmounts first,
\* whatever happens to the sources (audio-context creation throwing, the analysis
\* request failing, no source publishing, playback stopping).  Ticks are counted
\* up to MaxTicks.
C12_LoopKeepsTicking ==
    \A n \in 0..(MaxTicks - 1) :
        (mounted /\ ticks = n) ~> (ticks = n + 1 \/ ~mounted)

\* the loop has run to the bound, still mounted, after the audio context failed
\* to initialise (element attached, local mode, no analyser, nothing pending) and
\* after the analysis request of the current track settled without an analysis
C12_Witness ==
    /\ mounted
    /\ ticks = MaxTicks
    /\ frames # {}
    /\ props.audioElement # Null
    /\ ~props.isSpotifyMode
    /\ analyserRef = "none"
    /\ ~resuming
    /\ lastAnalyzedTrackId # Null
    /\ fetching = Null
    /\ spotifyAnalysis = Null

-----------------------------------------------------------------------------
(* Cancellation of the publishers' callbacks, checked under SpecAnalyser *)

\* the intervals capture the inputs they were armed under: an armed interval was
\* armed under the present ones
IntervalsUnderPresentInputs ==
    /\ meydaInterval # Off =>
          props.isPlaying /\ props.meydaData = Some(meydaInterval[1].meydaData)
    /\ simulationInterval # Off =>
          /\ props.isPlaying /\ props.isSpotifyMode
          /\ props.meydaData = Null /\ spotifyAnalysis = Null
          /\ props.currentPosition = simulationInterval[1].currentPosition
          /\ props.spotifyTrackData = simulationInterval[1].spotifyTrackData
    /\ analysisInterval # Off =>
          /\ props.isPlaying /\ props.isSpotifyMode
          /\ props.currentPosition = analysisInterval[1].currentPosition
          /\ spotifyAnalysis = Some(analysisInterval[1].spotifyAnalysis)

\* C13: when isPlaying becomes false, when the inputs that select a source
\* change, or when the component unmounts, every interval and frame callback
\* armed under the previous inputs is cancelled, so none of them writes after
\* the change: after every step an armed interval is one armed under the present
\* inputs, nothing is armed once unmounted, and an analyser frame request that
\* survives the step (its effect did not run again) has seen no change of the
\* inputs that select the live spectral source.
C13_StaleCallbacksCancelled ==
    [][/\ IntervalsUnderPresentInputs'
       /\ ~mounted' => Armed' = {} /\ frames' = {}
       /\ (animationFrameRef /\ animationFrameRef' /\ ~LoopDeps(props')) =>
             props'.audioElement = props.audioElement]_vars

-----------------------------------------------------------------------------
(* Properties of MeydaAudioService, checked under SpecService *)

\* C14: every analyzer started by startAnalysis, the Meyda analyzer or the
\* track-based interval, stops delivering features within 30 s of being started
\* even if stopAnalysis is never called: no callback invocation comes from an
\* analyzer started more than 30 s before.
C14_SelfStopWithin30s ==
    delivered # Null =>
        delivered[1].at <= analyzers[delivered[1].by].startedAt + AnalysisTimeout

\* C15: after stopAnalysis() resolves, the callback given to a preceding
\* startAnalysis is never invoked again, whether its analyzer is a Meyda analyzer
\* or the track-based interval and whether or not the Meyda library could be
\* loaded: no analyzer that existed when a stopAnalysis resolved delivers again.
C15_NoDeliveryAfterStop ==
    [][\A id \in DOMAIN analyzers :
          (analyzers[id].stopResolved /\ delivered' # delivered) => delivered'[1].by # id]_vars

\* C16: when processing one feature frame in the Meyda analyzer callback throws,
\* the consumer receives the fixed neutral feature set for that frame, the
\* analyzer is not stopped by it, and the next frame is processed normally (the
\* consumer receives its normalised features).
C16_FrameErrorGivesNeutralSet ==
    [][(delivered' # delivered /\ delivered'[1].raw # Null) =>
          LET d == delivered'[1]
          IN /\ d.caught => d.features = NeutralFeatures
             /\ ~d.caught => d.features = processedFeatures(d.raw[1])
             /\ analyzers' = analyzers
             /\ currentAnalyzer' = currentAnalyzer
             /\ analyzers[d.by].running]_vars

\* a frame whose processing threw was followed, on the same running analyzer, by
\* a frame that was processed normally and differs from the neutral set
C16_Witness ==
    /\ delivered # Null
    /\ delivered[1].raw # Null
    /\ delivered[1].prev = "caught"
    /\ ~delivered[1].caught
    /\ delivered[1].features = processedFeatures(delivered[1].raw[1])
    /\ delivered[1].features # NeutralFeatures
    /\ analyzers[delivered[1].by].running

\* the metrics with every absent one replaced by its default
WithDefaults(trackData) ==
    [k \in DOMAIN trackData |->
        IF trackData[k] = 0 THEN FallbackTrackData[k] ELSE trackData[k]]

\* a step in which a suspended startAnalysis resumes
StartResumes == calls # <<>> /\ Head(calls).op = "start" /\ calls' = Tail(calls)

\* C17: if the Meyda library cannot be loaded or the audio context was never
\* initialised, startAnalysis completes and the callback receives a feature set
\* at once and then repeatedly from the track-based fallback (its interval is
\* armed and each firing delivers), absent track metrics being replaced by the
\* fixed defaults.
C17_FallbackDeliversWithDefaults ==
    [][/\ (StartResumes /\ (~Meyda \/ ~audioContext)) =>
             LET id == Len(analyzers) + 1
             IN /\ delivered' # Null
                /\ delivered'[1].by = id
                /\ delivered'[1].at = now
                /\ delivered'[1].features =
                       trackFeatures(now, WithDefaults(Head(calls).trackData))
                /\ Len(analyzers') = id
                /\ analyzers'[id].kind = "track"
                /\ analyzers'[id].running
                /\ currentAnalyzer' = Some(id)
       /\ (delivered' # delivered /\ delivered'[1].raw = Null) =>
             LET d == delivered'[1]
             IN d.features = trackFeatures(d.at, WithDefaults(analyzers'[d.by].trackData))]_vars

\* without the library and without track metrics the callback has been invoked
\* at the start and again by the interval, 15 s later
C17_Witness ==
    /\ ~Meyda
    /\ delivered # Null
    /\ analyzers[delivered[1].by].kind = "track"
    /\ analyzers[delivered[1].by].trackData = NoTrackData
    /\ delivered[1].n = MaxDeliveries
    /\ delivered[1].at > analyzers[delivered[1].by].startedAt
    /\ delivered[1].features = trackFeatures(delivered[1].at, FallbackTrackData)

-----------------------------------------------------------------------------
(* Scenarios of the pulse, checked under SpecScenario *)

\* C18: with playback on and the constant ControlVector {bass: 0, mid: 0,
\* treble: 0, overall: 0, beat: false} fed for ScenarioTicks ticks, on every tick
\* the base, bass and beat pulse factors are 1, so the pulse equals the
\* natural-rhythm term alone and lies in [0.85, 1.15].
C18_ZeroVectorNaturalPulse ==
    [][(ticks' = ticks + 1 /\ isPlayingRef /\ audioDataRef = DefaultAudioData) =>
          LET pf == PulseFactors(audioDataRef, isPlayingRef, time, lastBeatTime)
          IN /\ pf.base = Scale /\ pf.bass = Scale /\ pf.beat = Scale
             /\ clampedPulse' = finalPulse(pf, naturalHeartbeat(time))
             /\ clampedPulse' = naturalHeartbeat(time)
             /\ clampedPulse' >= (85 * Scale) \div 100
             /\ clampedPulse' <= (115 * Scale) \div 100]_vars

\* the last of the ScenarioTicks ticks has run with playback on and the zero
\* vector, the natural term being off its mean
C18_Witness ==
    /\ ticks = ScenarioTicks
    /\ isPlayingRef
    /\ audioDataRef = DefaultAudioData
    /\ clampedPulse = naturalHeartbeat(time - TimeStep(time, Scale, DefaultAudioData, TRUE))
    /\ clampedPulse < (9 * Scale) \div 10

\* C19: with playback on, bass = 0.5 and overall > 0, one tick with beat = true
\* followed by ticks with beat = false gives a pulse that rises on the beat tick
\* and then decreases monotonically over the following ticks, within the decay
\* window of the beat (time - lastBeatTime below 1 / 0.03).
C19_BeatRiseThenMonotonicDecay ==
    [][(ticks' = ticks + 1 /\ isPlayingRef) =>
          /\ audioDataRef = BeatVector => clampedPulse' > clampedPulse
          /\ (audioDataRef = SteadyVector /\ lastBeatTime > 0
                /\ 3 * (time - lastBeatTime) < 100 * Scale) =>
                clampedPulse' <= clampedPulse]_vars

-----------------------------------------------------------------------------
(* The simulation with and without track metrics, checked under SpecSimulation *)

\* C20: in the simulation source with no real-time features, at every playback
\* position and for every value of the random variation term, the overall
\* computed with the track metrics {energy: 1, danceability: 1, valence: 1} is
\* strictly greater than the overall computed with no track metrics at the same
\* position.
C20_FullMetricsRaiseOverall ==
    (simulationInterval # Off /\ simulationInterval[1].spotifyTrackData = Some(FullMetrics)) =>
        LET pos == simulationInterval[1].currentPosition
        IN \A r1 \in SimDraws, r2 \in SimDraws :
              simulateEnhancedAudioData(pos, Some(FullMetrics), r1).overall
                  > simulateEnhancedAudioData(pos, Null, r2).overall

\* the simulation armed with the full metrics has published a vector at the last
\* position, and its overall exceeds the one computed without metrics
C20_Witness ==
    /\ simulationInterval # Off
    /\ simulationInterval[1].spotifyTrackData = Some(FullMetrics)
    /\ simulationInterval[1].currentPosition = 1000 * MaxSimSeconds
    /\ props.meydaData = Null
    /\ published
    /\ \E r \in SimDraws :
          /\ audioData = simulateEnhancedAudioData(1000 * MaxSimSeconds, Some(FullMetrics), r)
          /\ audioData.overall > simulateEnhancedAudioData(1000 * MaxSimSeconds, Null, r).overall

-----------------------------------------------------------------------------
(* The beat pulse, checked under SpecLoop *)

\* 1.6 + 0.5 * bass
beatAttack(a) == (16 * Scale) \div 10 + Quot(a.bass * 5, 10)

\* 1 + 0.3 * max(0, 1 - 0.03 * (t - lbt))
beatDecayed(t, lbt) == Scale + Quot(Max(0, Scale - Quot((t - lbt) * 3, 100)) * 3, 10)

\* the pulse passed to pulse(kx, ky) when the beat factor is beat and the base
\* and bass factors are those loop computes
PulseWithBeat(beat) ==
    LET pf == PulseFactors(audioDataRef, isPlayingRef, time, lastBeatTime)
    IN ClampPulse(finalPulse([pf EXCEPT !.beat = beat], naturalHeartbeat(time)))

\* C21: on every tick with playback on whose ControlVector has beat = true,
\* whatever its overall value, the beat pulse is the attack value 1.6 + 0.5 * bass
\* and lastBeatTime becomes the current phase time; on every tick with playback on
\* and beat = false lastBeatTime is unchanged and the beat pulse is
\* 1 + 0.3 * max(0, 1 - 0.03 * (time - lastBeatTime)).
C21_BeatAttackAndDecay ==
    [][(ticks' = ticks + 1 /\ isPlayingRef) =>
          LET pf == PulseFactors(audioDataRef, isPlayingRef, time, lastBeatTime)
          IN IF audioDataRef.beat
             THEN /\ pf.beat = beatAttack(audioDataRef)
                  /\ lastBeatTime' = time
                  /\ clampedPulse' = PulseWithBeat(beatAttack(audioDataRef))
             ELSE /\ pf.beat = beatDecayed(time, lastBeatTime)
                  /\ lastBeatTime' = lastBeatTime
                  /\ clampedPulse' = PulseWithBeat(beatDecayed(time, lastBeatTime))]_vars

-----------------------------------------------------------------------------
(* The inputs of the pulse computation, checked under SpecLoop *)

\* part_007:596-632 as one function: the pulse and the next (time, lastBeatTime)
\* from the vector a, the playing flag and the previous (t, lbt)
PulseStep(a, playing, t, lbt) ==
    LET pf == PulseFactors(a, playing, t, lbt)
        nat == naturalHeartbeat(t)
    IN [clampedPulse |-> ClampPulse(finalPulse(pf, nat)),
        time |-> t + TimeStep(t, nat, a, playing),
        lastBeatTime |-> pf.lbt]

\* the PulseState after a step
PulseStateNext == [clampedPulse |-> clampedPulse', time |-> time', lastBeatTime |-> lastBeatTime']

\* C22 as stated: the pulse computation is a function of the ControlVector and
\* the previous PulseState only.  A tick's pulse and next (time, lastBeatTime)
\* are those of every run that reads the same vector from the same (time,
\* lastBeatTime), whatever its other inputs, the playing flag among them; and no
\* step other than a tick changes the PulseState.
C22_PulseOfVectorAndStateOnly ==
    [][IF ticks' = ticks + 1
       THEN \A playing \in BOOLEAN :
               PulseStateNext = PulseStep(audioDataRef, playing, time, lastBeatTime)
       ELSE UNCHANGED <<clampedPulse, time, lastBeatTime>>]_vars

\* C22 amended: the pulse computation is a function of the ControlVector, the
\* playing flag and the previous PulseState only: a tick's pulse and next (time,
\* lastBeatTime) are PulseStep of these, whatever the window size, the particle
\* field, the random draws and the props are, and no step other than a tick
\* changes the PulseState.
C22_PulseOfVectorPlayingAndState ==
    [][IF ticks' = ticks + 1
       THEN PulseStateNext = PulseStep(audioDataRef, isPlayingRef, time, lastBeatTime)
       ELSE UNCHANGED <<clampedPulse, time, lastBeatTime>>]_vars

\* ticks have run with playback on and a vector with overall > 0, after a resize:
\* the pulse is above every value of the natural term and the phase has advanced
C22_Witness ==
    /\ ticks >= 2
    /\ isPlayingRef
    /\ audioDataRef.overall > 0
    /\ inner # InitialWindow
    /\ clampedPulse > (115 * Scale) \div 100
    /\ time > 0

-----------------------------------------------------------------------------
(* The homing-force division, checked under SpecLoop *)

\* C23: the re-targeting check runs before the homing-force division and the
\* divisor of the homing force is never zero: after every tick every particle has
\* a finite velocity and a finite position, also a particle whose lead trail
\* point coincided exactly with its target point when the tick began.
C23_HomingDivisionFinite ==
    \A k \in 1..Len(e) :
        /\ e[k].vx # NaN
        /\ e[k].vy # NaN
        /\ \A j \in 1..TraceCount : e[k].trace[j].x # NaN /\ e[k].trace[j].y # NaN

-----------------------------------------------------------------------------
(* Teardown of the render loop, checked under SpecFaults *)

\* C24: after the canvas effect's cleanup has run on unmount the render loop
\* never ticks again: the frame request pending at that moment is the one
\* cancelled (no request of the loop is left), and while the component is mounted
\* exactly one frame request of the loop is pending, the one whose handle
\* animationId holds.
C24_CleanupStopsLoop ==
    /\ [](mounted => frames = {animationId})
    /\ [](~mounted => frames = {})
    /\ [][~mounted => ticks' = ticks]_vars

\* the component has unmounted after a tick, before the bound on ticks: the
\* handle cancelled is the one the tick's request returned
C24_Witness ==
    /\ ~mounted
    /\ ticks >= 1
    /\ ticks < MaxTicks
    /\ animationId = ticks + 1
    /\ frames = {}

-----------------------------------------------------------------------------
(* The status indicator, checked under SpecSources *)

\* part_007:714: the indicator is rendered only while isPlaying
statusShown == props.isPlaying

\* part_007:734-740: the title of the indicator
statusTitle ==
    IF isLoadingAnalysis THEN "Loading Audio Analysis..."
    ELSE IF props.isSpotifyMode
         THEN IF props.meydaData # Null
              THEN "Spotify Visualizer (Meyda Real-time Analysis)"
              ELSE "Spotify Visualizer (Enhanced Simulation)"
         ELSE "Real-time Audio Visualizer"

\* the publisher a title names
StatusNames(title) ==
    CASE title = "Spotify Visualizer (Meyda Real-time Analysis)" -> "meyda"
      [] title = "Spotify Visualizer (Enhanced Simulation)" -> "simulation"
      [] title = "Real-time Audio Visualizer" -> "analyser"
      [] OTHER -> "none"

\* C25: whenever the status indicator is shown, the status it displays names the
\* publisher that is writing the ControlVector: the Meyda title only while the
\* real-time-feature publisher is armed, the simulation title only while the
\* simulation publisher is armed, the real-time title only while the analyser
\* loop is armed, and the loading title only while the analysis request is in
\* flight.
C25_StatusNamesWriter ==
    statusShown =>
        IF statusTitle = "Loading Audio Analysis..."
        THEN fetching # Null
        ELSE StatusNames(statusTitle) \in Armed

-----------------------------------------------------------------------------
(* Drawing-surface acquisition failure, checked under SpecCanvas *)

\* C26: if the canvas element or its 2D context cannot be obtained, the
\* initialisation returns without side effects: no particles are created, the
\* canvas is not sized or painted, no resize listener is registered and no render
\* tick is ever scheduled or run, whatever the window and the sources do later.
C26_NoSurfaceNoEffect ==
    surface # "ok" =>
        /\ e = <<>>
        /\ canvas = UntouchedCanvas
        /\ ~listening
        /\ frames = {}
        /\ animationId = 0
        /\ ticks = 0
        /\ targetPoints = <<>>

\* mounted on a canvas without a 2D context: playback has been switched on, a
\* vector with a beat published and the window resized
C26_Witness ==
    /\ surface = "noContext"
    /\ mounted
    /\ isPlayingRef
    /\ audioDataRef.beat
    /\ inner # InitialWindow
    /\ e = <<>>

-----------------------------------------------------------------------------
(* ReccoBeatsService, checked under SpecRecco *)

\* C27: for any sequence of calls, including calls for the same endpoint and
\* track issued before the first one has resolved, at most one network request
\* is sent for the same key within the cache duration: two fetches for one key
\* start at least CACHE_DURATION apart.
C27_OneRequestPerKey ==
    \A i \in 1..Len(fetched), j \in 1..Len(fetched) :
        (i < j /\ fetched[i].key = fetched[j].key)
            => fetched[j].at - fetched[i].at >= CACHE_DURATION

\* C28: the network requests start at least RATE_LIMIT_DELAY apart: for any
\* interleaving of calls, the time between the starts of two consecutive fetches
\* is never below RATE_LIMIT_DELAY.
C28_FetchesSpaced ==
    \A i \in 1..(Len(fetched) - 1) :
        fetched[i + 1].at - fetched[i].at >= RATE_LIMIT_DELAY

\* the second of two calls made within half a delay waited in rateLimit, and its
\* fetch started exactly RATE_LIMIT_DELAY after the first
C28_Witness ==
    /\ Len(fetched) = 2
    /\ fetched[1].at = MountTime
    /\ fetched[2].at = fetched[1].at + RATE_LIMIT_DELAY
    /\ answered # Null
    /\ answered.at = MountTime + RATE_LIMIT_DELAY \div 2
    /\ answered.queued

\* the latest of the times ts
Latest(ts) == CHOOSE t \in ts : \A u \in ts : u <= t

\* C29 as stated: once a successful response for a key is stored, every call
\* for that key made less than CACHE_DURATION after the (latest) store returns
\* stored data without enqueuing a request, and a call made CACHE_DURATION or
\* more after it issues a new request; only successful responses are stored.
C29_CacheServesEveryStore ==
    /\ (answered # Null /\ answered.stored # {}) =>
          IF answered.at - Latest(answered.stored) < CACHE_DURATION
          THEN answered.cached /\ ~answered.queued
          ELSE answered.queued
    /\ \A k \in Keys : cache[k] # Null => cache[k][1].timestamp \in StoredAt(k)

\* C29 amended: while the entry of a key has not been cleared, every call for the
\* key made less than CACHE_DURATION after the latest store of a successful
\* response for it returns the data of that store without enqueuing a request,
\* and a call made CACHE_DURATION or more after the latest store issues a new
\* request; an entry is always the latest successful response for its key.
C29_CacheServesLatestStore ==
    /\ answered # Null =>
          LET en == answered.entry
          IN en # Null =>
                IF answered.at - en[1].timestamp < CACHE_DURATION
                THEN /\ answered.cached
                     /\ ~answered.queued
                     /\ answered.data = en[1].data
                ELSE answered.queued /\ ~answered.cached
    /\ \A k \in Keys :
          cache[k] # Null =>
              /\ cache[k][1].timestamp \in StoredAt(k)
              /\ \A t \in StoredAt(k) : t <= cache[k][1].timestamp
              /\ \E f \in finished :
                    /\ f.ok /\ f.key = k /\ f.at = cache[k][1].timestamp
                    /\ ResponseData(f.id) = cache[k][1].data

\* a call for a key exactly CACHE_DURATION after its response was stored: the
\* entry is still in the cache and a new request is enqueued
C29_Witness ==
    /\ answered # Null
    /\ answered.entry # Null
    /\ answered.at - answered.entry[1].timestamp = CACHE_DURATION
    /\ answered.queued
    /\ cache[answered.key] = answered.entry

-----------------------------------------------------------------------------
(* Properties of MeydaAudioService, checked under SpecService *)

\* C31: after any sequence and interleaving of startAnalysis, stopAnalysis,
\* cleanup and initializeAudioContext calls, at most one analyzer (Meyda
\* analyzer or track-based interval) is delivering features at any time, the
\* one this.currentAnalyzer holds; a startAnalysis that starts an analyzer
\* leaves every analyzer started before it stopped.
C31_SingleAnalyzer ==
    /\ [](/\ Cardinality({i \in DOMAIN analyzers : analyzers[i].running}) <= 1
          /\ \A i \in DOMAIN analyzers : analyzers[i].running => currentAnalyzer = Some(i))
    /\ [][Len(analyzers') > Len(analyzers)
          => \A i \in DOMAIN analyzers : ~analyzers'[i].running]_vars

\* a second analyzer runs and delivers after the first, which was running when
\* the second startAnalysis resumed, has delivered and been stopped
C31_Witness ==
    /\ Len(analyzers) = 2
    /\ analyzers[2].running
    /\ ~analyzers[1].running
    /\ ~analyzers[1].stopResolved
    /\ analyzers[1].startedAt = analyzers[2].startedAt
    /\ delivered # Null
    /\ delivered[1].by = 2

-----------------------------------------------------------------------------
(* Further properties of the render loop, checked under SpecLoop *)

\* C32: in a particle step the target index and the wander direction change
\* only when the distance to the current target is below 10; when it is and no
\* random jump is taken, the direction is flipped or kept and the new index is
\* (old index + D) mod N for the direction D after the flip; D is always +1 or -1.
C32_RetargetOnlyWhenArrived ==
    /\ [](\A k \in DOMAIN e : e[k].D \in {1, 0 - 1})
    /\ [][ticks' = ticks + 1
          => \A k \in DOMAIN e :
                IF Arrived(e[k], targetPoints')
                THEN drawn'[k].kind # "jump"
                     => /\ e'[k].D = IF drawn'[k].kind = "flip" THEN 0 - e[k].D ELSE e[k].D
                        /\ e'[k].q = (e[k].q + e'[k].D) % heartPointsCount
                ELSE e'[k].q = e[k].q /\ e'[k].D = e[k].D]_vars

\* a tick in which one particle had arrived, flipped its direction and moved on
\* while another had not arrived
C32_Witness ==
    /\ ticks > 0
    /\ DOMAIN drawn # DOMAIN e
    /\ \E k \in DOMAIN drawn :
          /\ drawn[k].kind = "flip"
          /\ e[k].D # InitD(k - 1)

-----------------------------------------------------------------------------
(* Properties of the live spectral source, checked under SpecWindow *)

\* C33: in the live spectral source the rolling window over which the beat
\* threshold is averaged never holds more than 10 overall-level samples, after
\* any number of analysis frames.
C33_WindowAtMostTen == Len(beatHistory) <= 10

-----------------------------------------------------------------------------
(* Properties of the phase time, checked under SpecPhase *)

\* C34: the phase time of the render loop is strictly increasing from tick to
\* tick for every ControlVector with overall in [0, 1] and every isPlaying
\* value, and lastBeatTime never exceeds the current phase time.
C34_TimeStrictlyIncreasing ==
    /\ [](lastBeatTime <= time)
    /\ [](\A a \in ControlVectors, playing \in BOOLEAN :
             TimeStep(time, naturalHeartbeat(time), a, playing) > 0)
    /\ [][time' >= time /\ (ticks' # ticks => time' > time)]_vars

\* the phase has passed the half period of Math.sin, where the fast rate of the
\* advance applies, after a beat was recorded
C34_Witness ==
    /\ ticks > 0
    /\ Sin(time) < 0
    /\ time > Pi + 120 * timeDelta
    /\ 0 < lastBeatTime
    /\ lastBeatTime < time

-----------------------------------------------------------------------------
(* Properties of the live spectral source, checked under SpecAnalyserFair *)

\* C35: if a local audio element is attached in non-streamed mode and playback
\* is on, then once the audio-context initialisation has completed successfully
\* the analyser frame loop eventually starts publishing ControlVectors, in
\* whatever order the completion of the initialisation and the change of
\* isPlaying to true occur.
C35_AnalyserEventuallyPublishes ==
    LET ready == /\ mounted
                 /\ props.audioElement # Null
                 /\ ~props.isSpotifyMode
                 /\ props.isPlaying
                 /\ analyserRef = "ready"
    IN [](ready => <>(~ready \/ (animationFrameRef /\ published)))

-----------------------------------------------------------------------------
(* Further properties of MeydaAudioService, checked under SpecService *)

\* C36: the 30 s self-stop timer armed by one startAnalysis call stops only the
\* analyzer that call created: an analyzer started later is never stopped by an
\* earlier call's timer before its own 30 s have elapsed.
C36_TimerStopsOwnAnalyzer ==
    [][\A due \in timeouts \ timeouts' :
          \A id \in DOMAIN analyzers :
             (analyzers[id].running /\ ~analyzers'[id].running)
                => now >= analyzers[id].startedAt + AnalysisTimeout]_vars

\* C37: cleanup() does not await its stopAnalysis call, yet the deferred stop
\* never stops an analyzer started by a startAnalysis call made after that
\* cleanup() (called directly or by initializeAudioContext) returned, for every
\* interleaving of the pending stop with later calls.
C37_DeferredStopSparesLaterStarts ==
    [][(/\ calls # <<>>
        /\ Head(calls).cleanup # 0
        /\ Len(calls') < Len(calls))
          => \A id \in DOMAIN analyzers :
                (analyzers[id].running /\ ~analyzers'[id].running)
                   => Head(calls).cleanup \notin analyzers[id].after]_vars

\* the stopAnalysis of a cleanup() has resumed and stopped the analyzer that
\* was running, before the startAnalysis called while it was suspended resumes
C37_Witness ==
    /\ Len(calls) = 1
    /\ calls[1].op = "start"
    /\ calls[1].spared
    /\ Len(analyzers) = 1
    /\ analyzers[1].stopResolved
    /\ ~analyzers[1].running
    /\ delivered # Null
    /\ currentAnalyzer = Null

\* C38: for every feature object delivered by MeydaAudioService, whose loudness
\* and spectralRolloff are already normalised to [0, 1], the ControlVector of
\* convertMeydaToAudioData has overall = loudness / 100 <= 0.01 and
\* treble = spectralRolloff / 20000 <= 0.00005.
C38_NormalisedTwice ==
    delivered # Null =>
        LET f == delivered[1].features
            v == convertNormalised(f)
        IN /\ f.loudness \in 0..Scale
           /\ f.spectralRolloff \in 0..Scale
           /\ v.overall = f.loudness
           /\ v.overall <= Scale
           /\ v.treble = f.spectralRolloff
           /\ v.treble <= Scale
           /\ convertMeydaToAudioData(f).overall = Quot(f.loudness, 100)
           /\ convertMeydaToAudioData(f).overall <= Scale \div 100

\* a Meyda analyzer has delivered the features of a frame with loudness.total
\* 24 and a rolloff of half the Nyquist frequency
C38_Witness ==
    /\ delivered # Null
    /\ delivered[1].raw # Null
    /\ ~delivered[1].caught
    /\ delivered[1].features.loudness = (24 * Scale) \div 100
    /\ delivered[1].features.spectralRolloff = Scale \div 2
    /\ convertNormalised(delivered[1].features).overall = (24 * Scale) \div 100

-----------------------------------------------------------------------------
(* Liveness of ReccoBeatsService, checked under SpecReccoFair *)

\* C39: every promise returned by makeRequest eventually settles; a request
\* whose fetch fails or returns a non-OK status settles only its own promise,
\* the queue goes on to execute the request behind it, and a request enqueued
\* at any moment, also while the queue is being drained, is eventually executed.
C39_EveryRequestSettles ==
    /\ \A id \in 1..MaxRequests :
          [](nextId > id => <>(\E f \in finished : f.id = id))
    /\ [][/\ finished \subseteq finished'
          /\ \A f \in finished' \ finished :
                /\ finished' = finished \cup {f}
                /\ \E r \in running : r.id = f.id /\ r.phase = "fetching"
                /\ requestQueue # <<>>
                      => \E r \in running' : r.id = Head(requestQueue).id]_vars

\* the second request was enqueued while the first was executing; the first
\* failed and the second has been executed since
C39_Witness ==
    /\ nextId = 3
    /\ answered # Null
    /\ answered.queued
    /\ \E f1 \in finished, f2 \in finished :
          /\ f1.id = 1
          /\ ~f1.ok
          /\ answered.at < f1.at
          /\ f2.id = 2
          /\ f2.ok


-----------------------------------------------------------------------------
(***************************************************************************)
(* WebPlayerProvider (part_003:644-1116).  The Spotify Web Playback SDK is *)
(* the environment: it settles connect() and emits its events in any       *)
(* order on every player that has not been disconnected; 'ready' and       *)
(* 'not_ready' come from players whose connect() resolved true.  The       *)
(* consumer of part_006:35-57 calls initializePlayer again after every     *)
(* render of the provider, so a call can fall between any two events.      *)
(***************************************************************************)
MaxPlayers == 3       \* bound on the players created in one run

ConnectOutcomes == {"true", "false", "rejected"}

\* everything outside the provider
outerVars == <<loopVars, canvasVars, refVars, sourceVars, dataVars, serviceVars, reccoVars>>

\* new window.Spotify.Player({...}) with its connect() called (part_003:746-752, 842)
NewPlayer == [connect |-> "pending", disconnected |-> FALSE, registering |-> FALSE]

\* the players on which the SDK still emits events
Emitting(i) == i \in DOMAIN players /\ ~players[i].disconnected

\* a player whose connect() resolved true and on which disconnect() was not called
Connected(i) == Emitting(i) /\ players[i].connect = "true"

\* the script of the SDK has run: window.Spotify is defined (part_006:40-49)
SdkLoaded ==
    /\ ~Spotify
    /\ Spotify' = TRUE
    /\ UNCHANGED <<players, isInitializingRef, playerRef, isReady, player, deviceId,
                   playerState, providerMounted, outerVars>>

\* the two early returns of initializePlayer (part_003:720-729)
initializePlayerSkips == ~Spotify \/ isInitializingRef \/ isReady \/ playerRef # Null

\* initializePlayer(token) (part_003:719-855).  The disconnect of lines 736-744 is
\* behind the guard of line 726, where playerRef.current is null.
CallInitializePlayer ==
    /\ providerMounted
    /\ Len(players) < MaxPlayers
    /\ IF initializePlayerSkips
       THEN UNCHANGED <<isInitializingRef, players>>
       ELSE /\ isInitializingRef' = TRUE
            /\ players' = Append(players, NewPlayer)
    /\ UNCHANGED <<Spotify, playerRef, isReady, player, deviceId, playerState,
                   providerMounted, outerVars>>

\* newPlayer.connect() settles (part_003:842-854)
ConnectSettles(i, outcome) ==
    /\ i \in DOMAIN players
    /\ players[i].connect = "pending"
    /\ players' = [players EXCEPT ![i].connect = outcome]
    /\ IF outcome = "true"
       THEN /\ player' = Some(i)
            /\ playerRef' = Some(i)
            /\ UNCHANGED isInitializingRef
       ELSE /\ isInitializingRef' = FALSE
            /\ UNCHANGED <<player, playerRef>>
    /\ UNCHANGED <<Spotify, isReady, deviceId, playerState, providerMounted, outerVars>>

\* 'initialization_error', 'authentication_error' or 'account_error' on player i
\* (part_003:754-771): the three listeners do the same
ErrorEvent(i) ==
    /\ Emitting(i)
    /\ isInitializingRef' = FALSE
    /\ UNCHANGED <<Spotify, players, playerRef, isReady, player, deviceId, playerState,
                   providerMounted, outerVars>>

\* 'ready' on player i, up to  await waitForDeviceRegistration  (part_003:808-818);
\* the device id of player i is i
ReadyEvent(i) ==
    /\ Connected(i)
    /\ ~players[i].registering
    /\ deviceId' = Some(i)
    /\ playerState' = [playerState EXCEPT !.device_id = Some(i)]
    /\ players' = [players EXCEPT ![i].registering = TRUE]
    /\ UNCHANGED <<Spotify, isInitializingRef, playerRef, isReady, player,
                   providerMounted, outerVars>>

\* waitForDeviceRegistration resolves and the listener of 'ready' goes on
\* (part_003:705-717, 819-832)
RegistrationSettles(i, isRegistered) ==
    /\ i \in DOMAIN players
    /\ players[i].registering
    /\ isReady' = isRegistered
    /\ isInitializingRef' = FALSE
    /\ players' = [players EXCEPT ![i].registering = FALSE]
    /\ UNCHANGED <<Spotify, playerRef, player, deviceId, playerState, providerMounted,
                   outerVars>>

\* 'not_ready' on player i (part_003:835-839)
NotReadyEvent(i) ==
    /\ Connected(i)
    /\ isReady' = FALSE
    /\ UNCHANGED <<Spotify, players, isInitializingRef, playerRef, player, deviceId,
                   playerState, providerMounted, outerVars>>

\* the provider unmounts: cleanup() (part_003:1092-1116, 1119-1123)
PlayerCleanup ==
    /\ providerMounted
    /\ providerMounted' = FALSE
    /\ players' = IF playerRef = Null THEN players
                  ELSE [players EXCEPT ![playerRef[1]].disconnected = TRUE]
    /\ playerRef' = Null
    /\ player' = Null
    /\ isReady' = FALSE
    /\ deviceId' = Null
    /\ isInitializingRef' = FALSE
    /\ playerState' = [is_active |-> FALSE, device_id |-> Null]
    /\ UNCHANGED <<Spotify, outerVars>>

NextPlayer ==
    \/ SdkLoaded
    \/ CallInitializePlayer
    \/ \E i \in 1..MaxPlayers : \E outcome \in ConnectOutcomes : ConnectSettles(i, outcome)
    \/ \E i \in 1..MaxPlayers : ErrorEvent(i)
    \/ \E i \in 1..MaxPlayers : ReadyEvent(i)
    \/ \E i \in 1..MaxPlayers : \E isRegistered \in BOOLEAN :
          RegistrationSettles(i, isRegistered)
    \/ \E i \in 1..MaxPlayers : NotReadyEvent(i)
    \/ PlayerCleanup

SpecPlayer == InitSources /\ [][NextPlayer]_vars

-----------------------------------------------------------------------------
(* Properties of WebPlayerProvider, checked under SpecPlayer *)

\* a player is created only by a call that finds window.Spotify defined, no
\* initialisation flagged, isReady false and playerRef.current null (part_003:720-729)
CreationIsGuarded ==
    [][Len(players') > Len(players) =>
          /\ Spotify /\ ~isInitializingRef /\ ~isReady /\ playerRef = Null
          /\ Len(players') = Len(players) + 1
          /\ isInitializingRef']_vars

\* C40: whatever the order of initializePlayer calls and SDK events, at no time are
\* there two players whose connect() resolved true and that were not disconnected
C40_AtMostOnePlayerConnected ==
    Cardinality({i \in DOMAIN players : Connected(i)}) <= 1

=============================================================================
